---- MODULE Spec2Model ----
(***************************************************************************)
(* Model of the Aniflixx analytics worker: the ingestion pipeline          *)
(* (validate -> enrich -> classify -> shape -> write) of routes/tracking   *)
(* and the read-through cache gate of routes/analytics.                    *)
(*                                                                         *)
(* JavaScript values are modelled as records [t, s, n]: t is the type tag, *)
(* s the string payload, n the numeric payload.  Strings are TLA+ strings, *)
(* so length, concatenation and substring search are the real ones.        *)
(***************************************************************************)
EXTENDS Integers, Sequences, FiniteSets, TLC

VARIABLES
    req,        \* the request being handled (its body / batch, geo context, headers, env)
    now,        \* Date.now() observed by the request
    pc,         \* position of the ingestion handler: "idle", "batch", "done"
    idx,        \* batch loop: number of items already processed
    writes,     \* writeDataPoint calls issued by the current request, in order
    results,    \* batch: per-item result records, in push order
    resp,       \* the HTTP response of the current request
    cache,      \* KV namespace CACHE: key -> [present, value, expires]
    clock,      \* wall clock of the read side, in seconds
    rd,         \* the read request being handled
    rpc,        \* position of the read handler
    queries,    \* dataset queries issued by the current read request
    puts,       \* CACHE.put calls issued by the current read request
    rresp,      \* the HTTP response of the current read request
    served      \* history: key -> the body answered by the request that stored its value

trackVars == <<req, now, pc, idx, writes, results, resp>>
readVars  == <<cache, clock, rd, rpc, queries, puts, rresp, served>>
vars      == <<req, now, pc, idx, writes, results, resp,
               cache, clock, rd, rpc, queries, puts, rresp, served>>

----------------------------------------------------------------------------
(* JavaScript values *)

Undefined == [t |-> "undefined", s |-> "", n |-> 0]
Null      == [t |-> "null",      s |-> "", n |-> 0]
NaN       == [t |-> "nan",       s |-> "", n |-> 0]
Infinity  == [t |-> "number",    s |-> "Infinity", n |-> 0]
Str(x)    == [t |-> "string",    s |-> x,  n |-> 0]
Num(x)    == [t |-> "number",    s |-> "", n |-> x]

\* JavaScript truthiness: undefined, null, NaN, "" and 0 are falsy
Truthy(v) ==
    \/ v.t = "string" /\ v.s # ""
    \/ v.t = "number" /\ (v.n # 0 \/ v.s # "")

\* a || b
Or(a, b) == IF Truthy(a) THEN a ELSE b

\* typeof v === 'string'
IsString(v) == v.t = "string"

\* String.prototype.includes
Includes(s, sub) ==
    \E i \in 1..(Len(s) - Len(sub) + 1) : SubSeq(s, i, i + Len(sub) - 1) = sub

\* Array.prototype.some(e => event.includes(e)) over a list of keywords
SomeIncluded(list, s) == \E k \in 1..Len(list) : Includes(s, list[k])

----------------------------------------------------------------------------
(* Tracking events (types.ts TrackingEvent, CloudflareData) *)

\* the fields the tracking route reads from an event, plus the enrichment fields
EventFields ==
    {"event", "userId", "studioId", "sessionId", "timestamp",
     "paymentMethod", "currency", "contentId", "amount", "coins", "tax", "fee",
     "chapterId", "flickId", "contentType", "seriesId", "quality",
     "pageNumber", "watchTime", "totalPages", "duration", "readingTime",
     "bufferingTime", "scrollDepth", "bitrate", "completionRate", "engagement",
     "referrer", "source", "medium", "value", "score",
     "country", "city", "region", "timezone", "latitude", "longitude",
     "asn", "colo", "ip", "userAgent"}

CfFields == {"country", "city", "region", "timezone", "latitude", "longitude", "asn", "colo"}

\* a parsed JSON body: an object with fields, or null / an array / a number
Obj(f)      == [kind |-> "object", f |-> f]
NonObj(k)   == [kind |-> k, f |-> [x \in EventFields |-> Undefined]]

\* property read body.k: undefined on arrays, numbers and absent fields
Get(body, k) == IF body.kind = "object" THEN body.f[k] ELSE Undefined

\* property read on null throws a TypeError
ReadThrows(body) == body.kind = "null"

\* cf?.k
CfGet(cf, k) == IF cf.kind = "object" THEN cf.f[k] ELSE Undefined

----------------------------------------------------------------------------
(* validateTrackingEvent *)

EventNameMax == 100
UserIdMax    == 100

\* mutant: the userId presence check is missing
validateEventOnly(event) ==
    IF ~Truthy(Get(event, "event")) THEN Str("Missing required field: event")
    ELSE IF ~IsString(Get(event, "event")) \/ Len(Get(event, "event").s) > EventNameMax
        THEN Str("Invalid event name")
    ELSE IF Truthy(Get(event, "userId"))
            /\ (~IsString(Get(event, "userId")) \/ Len(Get(event, "userId").s) > UserIdMax)
        THEN Str("Invalid userId")
    ELSE Null

validateTrackingEvent(event) ==
    IF ~Truthy(Get(event, "event")) THEN Str("Missing required field: event")
    ELSE IF ~Truthy(Get(event, "userId")) THEN Str("Missing required field: userId")
    ELSE IF ~IsString(Get(event, "event")) \/ Len(Get(event, "event").s) > EventNameMax
        THEN Str("Invalid event name")
    ELSE IF ~IsString(Get(event, "userId")) \/ Len(Get(event, "userId").s) > UserIdMax
        THEN Str("Invalid userId")
    ELSE Null

----------------------------------------------------------------------------
(* parseFloat, on the strings the geo context can carry: an optional sign  *)
(* followed by digits; the longest numeric prefix is the value, and no     *)
(* numeric prefix gives NaN.                                               *)

DigitChars == <<"0", "1", "2", "3", "4", "5", "6", "7", "8", "9">>

IsDigit(c) == \E d \in 1..10 : DigitChars[d] = c

DigitVal(c) == (CHOOSE d \in 1..10 : DigitChars[d] = c) - 1

RECURSIVE ParseDigits(_, _, _)
\* value of the digit run of s starting at position i, given the value acc so far
ParseDigits(s, i, acc) ==
    IF i > Len(s) \/ ~IsDigit(SubSeq(s, i, i)) THEN acc
    ELSE ParseDigits(s, i + 1, acc * 10 + DigitVal(SubSeq(s, i, i)))

parseFloat(v) ==
    IF v.t = "number" THEN v
    ELSE IF v.t # "string" THEN NaN
    ELSE LET s     == v.s
             neg   == Len(s) >= 1 /\ SubSeq(s, 1, 1) = "-"
             start == IF neg \/ (Len(s) >= 1 /\ SubSeq(s, 1, 1) = "+") THEN 2 ELSE 1
         IN IF start > Len(s) \/ ~IsDigit(SubSeq(s, start, start)) THEN NaN
            ELSE Num((IF neg THEN -1 ELSE 1) * ParseDigits(s, start, 0))

----------------------------------------------------------------------------
(* enrichTrackingData *)

\* mutant: the event is spread last, so its own fields win over the request's
enrichTrackingDataPayloadLast(event, cf, headers, dateNow) ==
    [k \in EventFields |->
        IF k # "timestamp" /\ event.f[k] # Undefined THEN event.f[k]
        ELSE
        CASE k = "timestamp" -> Or(event.f["timestamp"], Num(dateNow))
          [] k = "country"   -> Or(CfGet(cf, "country"), Str("XX"))
          [] k = "city"      -> Or(CfGet(cf, "city"), Str("Unknown"))
          [] k = "region"    -> Or(CfGet(cf, "region"), Str("Unknown"))
          [] k = "timezone"  -> Or(CfGet(cf, "timezone"), Str("UTC"))
          [] k = "latitude"  -> Or(parseFloat(CfGet(cf, "latitude")), Num(0))
          [] k = "longitude" -> Or(parseFloat(CfGet(cf, "longitude")), Num(0))
          [] k = "asn"       -> Or(CfGet(cf, "asn"), Num(0))
          [] k = "colo"      -> Or(CfGet(cf, "colo"), Str("Unknown"))
          [] k = "ip"        -> Or(headers.ip, Str("unknown"))
          [] k = "userAgent" -> Or(headers.userAgent, Str("unknown"))
          [] OTHER           -> event.f[k]]

enrichTrackingData(event, cf, headers, dateNow) ==
    [k \in EventFields |->
        CASE k = "timestamp" -> Or(event.f["timestamp"], Num(dateNow))
          [] k = "country"   -> Or(CfGet(cf, "country"), Str("XX"))
          [] k = "city"      -> Or(CfGet(cf, "city"), Str("Unknown"))
          [] k = "region"    -> Or(CfGet(cf, "region"), Str("Unknown"))
          [] k = "timezone"  -> Or(CfGet(cf, "timezone"), Str("UTC"))
          [] k = "latitude"  -> Or(parseFloat(CfGet(cf, "latitude")), Num(0))
          [] k = "longitude" -> Or(parseFloat(CfGet(cf, "longitude")), Num(0))
          [] k = "asn"       -> Or(CfGet(cf, "asn"), Num(0))
          [] k = "colo"      -> Or(CfGet(cf, "colo"), Str("Unknown"))
          [] k = "ip"        -> Or(headers.ip, Str("unknown"))
          [] k = "userAgent" -> Or(headers.userAgent, Str("unknown"))
          [] OTHER           -> event.f[k]]

----------------------------------------------------------------------------
(* classification *)

revenueEvents ==
    <<"purchase_completed", "coins_purchased", "subscription_started",
      "subscription_cancelled", "payment_failed", "refund_processed">>

\* mutant: the bare word 'payment' is not looked for
isRevenueEventNoPayment(event) ==
    \/ SomeIncluded(revenueEvents, event)
    \/ Includes(event, "revenue")

isRevenueEvent(event) ==
    \/ SomeIncluded(revenueEvents, event)
    \/ Includes(event, "revenue")
    \/ Includes(event, "payment")

contentEvents ==
    <<"chapter_opened", "chapter_completed", "page_viewed", "reading_session",
      "flick_started", "flick_completed", "watch_progress", "content_liked",
      "content_shared", "content_saved">>

isContentEvent(event) ==
    \/ SomeIncluded(contentEvents, event)
    \/ Includes(event, "chapter")
    \/ Includes(event, "flick")
    \/ Includes(event, "episode")

----------------------------------------------------------------------------
(* shapers: the data point each track*Event hands to writeDataPoint *)

trackRevenueEvent(data) ==
    [blobs   |-> <<data["event"],
                   Or(data["studioId"], Str("unknown")),
                   data["userId"],
                   data["country"],
                   data["city"],
                   Or(data["paymentMethod"], Str("")),
                   Or(data["currency"], Str("USD")),
                   Or(data["contentId"], Str(""))>>,
     doubles |-> <<Or(data["amount"], Num(0)),
                   Or(data["coins"], Num(0)),
                   Or(data["tax"], Num(0)),
                   Or(data["fee"], Num(0)),
                   data["timestamp"],
                   data["latitude"],
                   data["longitude"]>>,
     indexes |-> <<Or(data["studioId"], Str("unknown"))>>]

trackContentEvent(data) ==
    [blobs   |-> <<data["event"],
                   Or(data["contentId"], Or(data["chapterId"], Or(data["flickId"], Str("")))),
                   data["userId"],
                   data["country"],
                   data["city"],
                   Or(data["contentType"], Str("")),
                   Or(data["seriesId"], Str("")),
                   Or(data["quality"], Str(""))>>,
     doubles |-> <<Or(data["pageNumber"], Or(data["watchTime"], Num(0))),
                   Or(data["totalPages"], Or(data["duration"], Num(0))),
                   Or(data["readingTime"], Or(data["bufferingTime"], Num(0))),
                   Or(data["scrollDepth"], Or(data["bitrate"], Num(0))),
                   Or(data["completionRate"], Num(0)),
                   Or(data["engagement"], Num(0)),
                   data["timestamp"]>>,
     indexes |-> <<Or(data["studioId"], Str("unknown"))>>]

\* mutant: optional numbers are written only when the event carries them
trackUserBehaviorEventSparse(data) ==
    [blobs   |-> <<data["event"],
                   data["userId"],
                   Or(data["sessionId"], Str("")),
                   data["country"],
                   data["city"],
                   Or(data["referrer"], Str("")),
                   Or(data["source"], Str("")),
                   Or(data["medium"], Str(""))>>,
     doubles |-> (IF Truthy(data["value"]) THEN <<data["value"]>> ELSE <<>>)
                 \o (IF Truthy(data["duration"]) THEN <<data["duration"]>> ELSE <<>>)
                 \o (IF Truthy(data["score"]) THEN <<data["score"]>> ELSE <<>>)
                 \o <<data["latitude"], data["longitude"], data["asn"], data["timestamp"]>>,
     indexes |-> <<Or(data["studioId"], Str("global"))>>]

trackUserBehaviorEvent(data) ==
    [blobs   |-> <<data["event"],
                   data["userId"],
                   Or(data["sessionId"], Str("")),
                   data["country"],
                   data["city"],
                   Or(data["referrer"], Str("")),
                   Or(data["source"], Str("")),
                   Or(data["medium"], Str(""))>>,
     doubles |-> <<Or(data["value"], Num(1)),
                   Or(data["duration"], Num(0)),
                   Or(data["score"], Num(0)),
                   data["latitude"],
                   data["longitude"],
                   data["asn"],
                   data["timestamp"]>>,
     indexes |-> <<Or(data["studioId"], Str("global"))>>]

----------------------------------------------------------------------------
(* routeEventToDataset *)

\* mutant: the studio id is left as submitted
DefaultStudioSkipped(data) == data

\* lines 195-199: data.studioId is overwritten with 'unknown' when falsy
DefaultStudio(data) ==
    IF ~Truthy(data["studioId"]) \/ data["studioId"] = Str("")
    THEN [data EXCEPT !["studioId"] = Str("unknown")]
    ELSE data

\* mutant: the content check comes first
DatasetOfContentFirst(event) ==
    IF isContentEvent(event) THEN "STUDIO_ANALYTICS"
    ELSE IF isRevenueEvent(event) THEN "REVENUE_TRACKING"
    ELSE "USER_BEHAVIOR"

\* the dataset binding the event name selects (lines 201-208)
DatasetOf(event) ==
    IF isRevenueEvent(event) THEN "REVENUE_TRACKING"
    ELSE IF isContentEvent(event) THEN "STUDIO_ANALYTICS"
    ELSE "USER_BEHAVIOR"

\* the writeDataPoint calls one routeEventToDataset call issues, in order:
\* none without environment bindings, otherwise exactly the selected shaper's
routeEventToDataset(data, envOK, item) ==
    IF ~envOK THEN <<>>
    ELSE LET d  == DefaultStudio(data)
             ds == DatasetOf(d["event"].s)
         IN <<[item    |-> item,
               dataset |-> ds,
               point   |-> CASE ds = "REVENUE_TRACKING" -> trackRevenueEvent(d)
                             [] ds = "STUDIO_ANALYTICS" -> trackContentEvent(d)
                             [] OTHER                   -> trackUserBehaviorEvent(d)]>>

----------------------------------------------------------------------------
(* Inputs: the request bodies, geo contexts and failures the model draws from *)

MaxSmallBatch == 3      \* batches of 1..MaxSmallBatch items vary freely
\* mutant: one more event is let through
MaxBatchLoose == EventNameMax + 1

MaxBatch      == 100    \* if (events.length > 100)
NowValues     == {1000000000}   \* Date.now(), ms since the epoch

RECURSIVE Repeat(_, _)
Repeat(c, k) == IF k = 0 THEN "" ELSE c \o Repeat(c, k - 1)

UpperChars == <<"A", "B", "C", "D", "E", "F", "G", "H", "I", "J", "K", "L", "M",
                "N", "O", "P", "Q", "R", "S", "T", "U", "V", "W", "X", "Y", "Z">>
LowerChars == <<"a", "b", "c", "d", "e", "f", "g", "h", "i", "j", "k", "l", "m",
                "n", "o", "p", "q", "r", "s", "t", "u", "v", "w", "x", "y", "z">>

LowerChar(c) == IF \E k \in 1..26 : UpperChars[k] = c
                THEN LowerChars[CHOOSE k \in 1..26 : UpperChars[k] = c] ELSE c
UpperChar(c) == IF \E k \in 1..26 : LowerChars[k] = c
                THEN UpperChars[CHOOSE k \in 1..26 : LowerChars[k] = c] ELSE c

RECURSIVE ToLowerCase(_)
ToLowerCase(s) ==
    IF s = "" THEN "" ELSE LowerChar(SubSeq(s, 1, 1)) \o ToLowerCase(SubSeq(s, 2, Len(s)))

RECURSIVE ToUpperCase(_)
ToUpperCase(s) ==
    IF s = "" THEN "" ELSE UpperChar(SubSeq(s, 1, 1)) \o ToUpperCase(SubSeq(s, 2, Len(s)))

Capitalize(s) == IF s = "" THEN "" ELSE UpperChar(SubSeq(s, 1, 1)) \o SubSeq(s, 2, Len(s))

SeqToSet(list) == {list[k] : k \in 1..Len(list)}

RevenueWords == SeqToSet(revenueEvents) \cup {"revenue", "payment"}
ContentWords == SeqToSet(contentEvents) \cup {"chapter", "flick", "episode"}
OtherWords   == {"login", "app_opened", "search"}

\* lower-case event names: every keyword bare, prefixed and suffixed, names
\* joining a revenue word and a content word in both orders, and plain names
LowerNames ==
    {p \o w \o q : p \in {"", "x_"}, w \in RevenueWords \cup ContentWords \cup OtherWords,
                   q \in {"", "_v2"}}
    \cup {a \o "_for_" \o b : a \in {"payment", "revenue", "refund_processed"},
                              b \in {"chapter", "flick", "episode", "page_viewed"}}
    \cup {b \o "_" \o a \o "_shared" : a \in {"payment", "revenue"},
                                       b \in {"chapter", "flick", "episode"}}

\* the same names written with capitals
CasedNames ==
    {Capitalize(w) : w \in RevenueWords \cup ContentWords \cup OtherWords}
    \cup {ToUpperCase(w) : w \in {"purchase_completed", "chapter_opened", "payment",
                                  "login", "payment_for_chapter"}}
    \cup {"Purchase_Completed", "Payment_for_chapter", "payment_for_Chapter"}

EventNames == LowerNames \cup CasedNames

\* names the shapers are exercised with: one per route, both-keyword names, a cased one
ShapeNames ==
    {"purchase_completed", "chapter_opened", "login", "payment_for_chapter",
     "chapter_revenue_shared", "Purchase_Completed", "episode_watched", "x_flick_started"}

NoFields == [k \in EventFields |-> Undefined]

With(f, k, v) == [f EXCEPT ![k] = v]

StringOptionals ==
    {"sessionId", "paymentMethod", "currency", "contentId", "chapterId", "flickId",
     "contentType", "seriesId", "quality", "referrer", "source", "medium"}
NumberOptionals ==
    {"amount", "coins", "tax", "fee", "pageNumber", "watchTime", "totalPages",
     "duration", "readingTime", "bufferingTime", "scrollDepth", "bitrate",
     "completionRate", "engagement", "value", "score"}
PrimaryOptionals ==
    {"contentId", "pageNumber", "totalPages", "readingTime", "scrollDepth"}
GeoPayloadFields ==
    {"country", "city", "region", "timezone", "latitude", "longitude",
     "asn", "colo", "ip", "userAgent"}

\* the optional fields of an event: all omitted, all carried, all zero/empty,
\* and only the fall-back fields of the content chains carried
OptionalProfiles ==
    {"omitted", "carried", "zeroed", "fallbacks"}

Optionals(profile) ==
    [k \in EventFields |->
        IF k \in StringOptionals THEN
            CASE profile = "carried"   -> Str(k \o "-1")
              [] profile = "zeroed"    -> Str("")
              [] profile = "fallbacks" -> IF k \in PrimaryOptionals THEN Undefined
                                          ELSE Str(k \o "-2")
              [] OTHER                 -> Undefined
        ELSE IF k \in NumberOptionals THEN
            CASE profile = "carried"   -> Num(Len(k))
              [] profile = "zeroed"    -> Num(0)
              [] profile = "fallbacks" -> IF k \in PrimaryOptionals THEN Num(0)
                                          ELSE Num(Len(k) + 20)
              [] OTHER                 -> Undefined
        ELSE Undefined]

\* payload fields named like the enrichment fields (a client trying to set them)
GeoPayload(spoof) ==
    [k \in EventFields |->
        IF spoof /\ k \in GeoPayloadFields
        THEN (IF k \in {"latitude", "longitude", "asn"} THEN Num(99) ELSE Str("spoofed"))
        ELSE Undefined]

Merge(f, g) == [k \in EventFields |-> IF g[k] # Undefined THEN g[k] ELSE f[k]]

EventValues ==
    {Undefined, Null, Str(""), Num(0), Num(7), Str("login"),
     Str(Repeat("e", EventNameMax)), Str(Repeat("e", EventNameMax + 1))}
UserIdValues ==
    {Undefined, Str(""), Num(7), Str("u1"), Str(Repeat("u", UserIdMax)),
     Str(Repeat("u", UserIdMax + 1))}
StudioValues    == {Undefined, Str(""), Str("studio-1")}
TimestampValues == {Undefined, Num(0), Num(-5), Num(900000000), Str("yesterday")}

\* bodies that exercise the validator: any event / userId value, nothing else
ValidationBodies ==
    {Obj(With(With(NoFields, "event", e), "userId", u)) :
        e \in EventValues, u \in UserIdValues}

\* bodies that exercise the classifier: every event name, nothing optional
RoutingBodies ==
    {Obj(With(With(NoFields, "event", Str(nm)), "userId", Str("u1"))) : nm \in EventNames}

\* bodies that exercise enrichment, routing and shaping: a valid userId and name
ShapingBodies ==
    {Obj(With(With(With(With(Merge(Optionals(o), GeoPayload(g)),
            "event", Str(nm)), "userId", Str("u1")), "studioId", st), "timestamp", ts)) :
        nm \in ShapeNames, st \in StudioValues, ts \in TimestampValues,
        o \in OptionalProfiles, g \in BOOLEAN}

NonObjectBodies == {NonObj("null"), NonObj("array"), NonObj("number")}

Bodies == ValidationBodies \cup RoutingBodies \cup ShapingBodies \cup NonObjectBodies

\* the items batches are built from
BatchBodies ==
    {Obj(With(With(With(NoFields, "event", Str("purchase_completed")), "userId", Str("u1")),
              "studioId", Str("studio-1"))),
     Obj(With(With(NoFields, "event", Str("chapter_opened")), "userId", Str("u2"))),
     Obj(With(With(NoFields, "event", Str("login")), "userId", Str("u3"))),
     Obj(With(NoFields, "userId", Str("u1"))),
     Obj(With(NoFields, "event", Str("login"))),
     NonObj("null")}

CfObject(country, city, region, timezone, latitude, longitude, asn, colo) ==
    [kind |-> "object",
     f |-> [k \in CfFields |->
              CASE k = "country"   -> country
                [] k = "city"      -> city
                [] k = "region"    -> region
                [] k = "timezone"  -> timezone
                [] k = "latitude"  -> latitude
                [] k = "longitude" -> longitude
                [] k = "asn"       -> asn
                [] OTHER           -> colo]]

\* request.cf and the two request headers: absent, fully resolved, partly resolved
Contexts ==
    {[cf      |-> [kind |-> "undefined", f |-> [k \in CfFields |-> Undefined]],
      headers |-> [ip |-> Null, userAgent |-> Null]],
     [cf      |-> CfObject(Str("US"), Str("Austin"), Str("Texas"), Str("America/Chicago"),
                           Str("30"), Str("-97"), Num(13335), Str("DFW")),
      headers |-> [ip |-> Str("203.0.113.7"), userAgent |-> Str("Mozilla/5.0")]],
     [cf      |-> CfObject(Str(""), Undefined, Str("Bavaria"), Undefined,
                           Str("north"), Undefined, Num(0), Str("")),
      headers |-> [ip |-> Str(""), userAgent |-> Str("curl/8")]]}

\* what a failing call throws: an Error with a message, or a value that is no Error
Causes == {"error", "nonError"}

\* error instanceof Error ? error.message : 'Unknown error'
Details(cause, message) == IF cause = "error" THEN Str(message) ELSE Str("Unknown error")

----------------------------------------------------------------------------
(* Requests of the ingestion routes *)

\* item i of the submitted list (a single event is a list of one)
ItemAt(r, i) == IF i \in r.oddAt THEN r.odd ELSE r.base

\* POST /track: a JSON body, or a body c.req.json() cannot parse
TrackRequests ==
    {[kind |-> "single", jsonOK |-> ok, isArray |-> FALSE, n |-> 1,
      base |-> b, odd |-> b, oddAt |-> {}, failAt |-> IF fl = "none" THEN {} ELSE {1},
      cause |-> IF fl = "none" THEN "error" ELSE fl,
      cf |-> ctx.cf, headers |-> ctx.headers, envOK |-> env] :
        ok \in {TRUE}, b \in Bodies, fl \in {"none"} \cup Causes,
        ctx \in Contexts, env \in BOOLEAN}
    \cup
    {[kind |-> "single", jsonOK |-> FALSE, isArray |-> FALSE, n |-> 1,
      base |-> NonObj("null"), odd |-> NonObj("null"), oddAt |-> {}, failAt |-> {},
      cause |-> c, cf |-> ctx.cf, headers |-> ctx.headers, envOK |-> TRUE] :
        c \in Causes, ctx \in Contexts}

\* the positions of a list of n items at which the odd item or a failing write sits
Marks(n) == {{}, {1}, {(n + 1) \div 2}, {n}}

\* POST /track/batch: {events: [...]} with n items, all equal to `base` except at
\* the marked positions; the writes of the positions in failAt throw
SmallBatches(n) ==
    {[kind |-> "batch", jsonOK |-> TRUE, isArray |-> TRUE, n |-> n,
      base |-> b, odd |-> o, oddAt |-> m, failAt |-> f, cause |-> c,
      cf |-> ctx.cf, headers |-> ctx.headers, envOK |-> env] :
        b \in BatchBodies, o \in BatchBodies,
        m \in Marks(n), f \in Marks(n) \cup {1..n}, c \in Causes,
        ctx \in {x \in Contexts : x.headers.userAgent = Str("Mozilla/5.0")},
        env \in BOOLEAN}

\* a list of exactly MaxBatch items: valid events with at most one odd item, in the
\* middle, and no write, the first write or every write failing
FullBatches ==
    {[kind |-> "batch", jsonOK |-> TRUE, isArray |-> TRUE, n |-> MaxBatch,
      base |-> b, odd |-> o, oddAt |-> m, failAt |-> f, cause |-> "error",
      cf |-> ctx.cf, headers |-> ctx.headers, envOK |-> TRUE] :
        b \in {x \in BatchBodies : validateTrackingEvent(x) = Null /\ ~ReadThrows(x)},
        o \in BatchBodies,
        m \in {{}, {MaxBatch \div 2}}, f \in {{}, {1}, 1..MaxBatch},
        ctx \in {x \in Contexts : x.headers.userAgent = Str("Mozilla/5.0")}}

AcceptedBatches == FullBatches \cup UNION {SmallBatches(n) : n \in 1..MaxSmallBatch}

\* bodies the batch route turns away: unparsable, events not a list, empty, too long
RejectedBatches ==
    {[kind |-> "batch", jsonOK |-> j, isArray |-> a, n |-> n,
      base |-> b, odd |-> b, oddAt |-> {}, failAt |-> {}, cause |-> c,
      cf |-> ctx.cf, headers |-> ctx.headers, envOK |-> TRUE] :
        j \in BOOLEAN, a \in BOOLEAN, n \in {0, 1, MaxBatch + 1, MaxBatch + MaxSmallBatch},
        b \in BatchBodies, c \in Causes, ctx \in Contexts}

NoRequest ==
    [kind |-> "none", jsonOK |-> TRUE, isArray |-> FALSE, n |-> 0,
     base |-> NonObj("null"), odd |-> NonObj("null"), oddAt |-> {}, failAt |-> {},
     cause |-> "error", cf |-> [kind |-> "undefined", f |-> [k \in CfFields |-> Undefined]],
     headers |-> [ip |-> Null, userAgent |-> Null], envOK |-> TRUE]

NoResponse ==
    [status |-> 0, error |-> "", details |-> Undefined, success |-> FALSE,
     tracked |-> Undefined, timestamp |-> Undefined,
     country |-> Undefined, city |-> Undefined, timezone |-> Undefined,
     total |-> 0, successful |-> 0, failed |-> 0, results |-> <<>>]

\* c.json(response, code) with an ErrorResponse
ErrorResponse(code, error, details) ==
    [NoResponse EXCEPT !.status = code, !.error = error, !.details = details]

\* validate -> enrich -> route for item i, as both handlers run it inside their try:
\* how it ends, the message a catch would read, the enriched data, the writes issued
Attempt(r, i, dateNow) ==
    LET item == ItemAt(r, i)
    IN IF ReadThrows(item) THEN
           [end |-> "threw", error |-> Str("Cannot read properties of null (reading 'event')"),
            data |-> NoFields, ws |-> <<>>]
       ELSE IF Truthy(validateTrackingEvent(item)) THEN
           [end |-> "invalid", error |-> validateTrackingEvent(item),
            data |-> NoFields, ws |-> <<>>]
       ELSE LET data   == enrichTrackingData(item, r.cf, r.headers, dateNow)
                issued == routeEventToDataset(data, r.envOK, i)
                ok     == i \notin r.failAt
            IN [end   |-> IF issued # <<>> /\ ~ok THEN "threw" ELSE "ok",
                error |-> IF issued # <<>> /\ ~ok
                          THEN Details(r.cause, "writeDataPoint failed") ELSE Undefined,
                data  |-> data,
                ws    |-> [k \in 1..Len(issued) |->
                             [item    |-> issued[k].item,
                              dataset |-> issued[k].dataset,
                              point   |-> issued[k].point,
                              ok      |-> ok]]]

----------------------------------------------------------------------------
(* POST /track *)

TrackResponse(r, a) ==
    IF ~r.jsonOK THEN
        ErrorResponse(500, "Failed to track event", Details(r.cause, "Unexpected end of JSON input"))
    ELSE CASE a.end = "invalid" -> ErrorResponse(400, "Validation failed", a.error)
           [] a.end = "threw"   -> ErrorResponse(500, "Failed to track event", a.error)
           [] OTHER ->
               [NoResponse EXCEPT !.status = 200, !.success = TRUE,
                                  !.tracked = a.data["event"],
                                  !.timestamp = a.data["timestamp"],
                                  !.country = a.data["country"],
                                  !.city = a.data["city"],
                                  !.timezone = a.data["timezone"]]

Track ==
    /\ pc = "idle"
    /\ \E r \in TrackRequests, t \in NowValues :
        LET a == Attempt(r, 1, t)
        IN /\ req' = r
           /\ now' = t
           /\ writes' = IF r.jsonOK THEN a.ws ELSE <<>>
           /\ resp' = TrackResponse(r, a)
    /\ pc' = "done"
    /\ idx' = 0
    /\ results' = <<>>
    /\ UNCHANGED readVars

----------------------------------------------------------------------------
(* POST /track/batch *)

BatchStart ==
    /\ pc = "idle"
    /\ \E r \in AcceptedBatches \cup RejectedBatches, t \in NowValues :
        /\ req' = r
        /\ now' = t
        /\ IF ~r.jsonOK THEN
               /\ resp' = ErrorResponse(500, "Failed to process batch",
                                        Details(r.cause, "Unexpected end of JSON input"))
               /\ pc' = "done"
           ELSE IF ~r.isArray \/ r.n = 0 THEN
               /\ resp' = ErrorResponse(400, "Invalid batch",
                                        Str("Events must be a non-empty array"))
               /\ pc' = "done"
           ELSE IF r.n > MaxBatch THEN
               /\ resp' = ErrorResponse(400, "Batch too large",
                                        Str("Maximum 100 events per batch"))
               /\ pc' = "done"
           ELSE
               /\ resp' = NoResponse
               /\ pc' = "batch"
    /\ idx' = 0
    /\ writes' = <<>>
    /\ results' = <<>>
    /\ UNCHANGED readVars

\* the record one pass of the for loop pushes
ItemResult(r, i, a) ==
    IF a.end = "ok"
    THEN [success |-> TRUE, tracked |-> Get(ItemAt(r, i), "event"), error |-> Undefined]
    ELSE [success |-> FALSE, tracked |-> Undefined, error |-> a.error]

\* mutant: the loop stops at the first item that fails
BatchItemAborting ==
    /\ pc = "batch"
    /\ idx < req.n
    /\ LET a == Attempt(req, idx + 1, now)
       IN /\ writes' = writes \o a.ws
          /\ results' = Append(results, ItemResult(req, idx + 1, a))
          /\ idx' = IF a.end = "ok" THEN idx + 1 ELSE req.n
    /\ UNCHANGED <<req, now, pc, resp>>
    /\ UNCHANGED readVars

\* one pass of the for loop
BatchItem ==
    /\ pc = "batch"
    /\ idx < req.n
    /\ LET a == Attempt(req, idx + 1, now)
       IN /\ writes' = writes \o a.ws
          /\ results' = Append(results, ItemResult(req, idx + 1, a))
    /\ idx' = idx + 1
    /\ UNCHANGED <<req, now, pc, resp>>
    /\ UNCHANGED readVars

\* mutant: both counts are taken with the same predicate
CountSuccessesOnly(list, wanted) == Cardinality({k \in 1..Len(list) : list[k].success})

\* results.filter(pred).length
CountWhere(list, wanted) == Cardinality({k \in 1..Len(list) : list[k].success = wanted})

BatchFinish ==
    /\ pc = "batch"
    /\ idx = req.n
    /\ resp' = [NoResponse EXCEPT !.status = 200, !.success = TRUE,
                                  !.total = req.n,
                                  !.successful = CountWhere(results, TRUE),
                                  !.failed = CountWhere(results, FALSE),
                                  !.results = results]
    /\ pc' = "done"
    /\ UNCHANGED <<req, now, idx, writes, results>>
    /\ UNCHANGED readVars

\* the response has been sent; the worker waits for the next request
NextRequest ==
    /\ pc = "done"
    /\ req' = NoRequest
    /\ pc' = "idle"
    /\ idx' = 0
    /\ writes' = <<>>
    /\ results' = <<>>
    /\ resp' = NoResponse
    /\ now' = 0
    /\ UNCHANGED readVars

----------------------------------------------------------------------------
(* Numbers, lists and JSON of the read side (routes/analytics) *)

RECURSIVE GCD(_, _)
GCD(a, b) == IF b = 0 THEN a ELSE GCD(b, a % b)

Abs(a) == IF a < 0 THEN -a ELSE a

(* a / b for integers a and b >= 0: 0 / 0 is NaN and a / 0 is Infinity.      *)
(* For b > 0 an exact quotient is the integer; any                         *)
(* other is the reduced fraction, written in s, with its floor in n.       *)
Quotient(a, b) ==
    IF b = 0 THEN (IF a = 0 THEN NaN ELSE Infinity)
    ELSE LET g == GCD(Abs(a), b)
             p == a \div g
             q == b \div g
         IN IF q = 1 THEN Num(p)
            ELSE [t |-> "number", s |-> ToString(p) \o "/" \o ToString(q), n |-> p \div q]

\* Math.round(a / b * 100) / 100 for integers a and b > 0 (Math.round is floor(x + 0.5))
RoundedHundredths(a, b) ==
    IF b = 0 THEN Quotient(a, b) ELSE Quotient((200 * a + b) \div (2 * b), 100)

\* parseInt of a string: optional sign, then the leading digit run; NaN without one
parseInt(s) ==
    LET neg   == Len(s) >= 1 /\ SubSeq(s, 1, 1) = "-"
        start == IF neg \/ (Len(s) >= 1 /\ SubSeq(s, 1, 1) = "+") THEN 2 ELSE 1
    IN IF start > Len(s) \/ ~IsDigit(SubSeq(s, start, start)) THEN NaN
       ELSE Num((IF neg THEN -1 ELSE 1) * ParseDigits(s, start, 0))

\* `${v}` for a number
NumberToString(v) == IF v.t = "nan" THEN "NaN" ELSE ToString(v.n)

\* Array.prototype.slice(0, end)
slice(list, end) ==
    LET e == IF end.t # "number" THEN 0
             ELSE IF end.n < 0 THEN (IF Len(list) + end.n < 0 THEN 0 ELSE Len(list) + end.n)
             ELSE IF end.n > Len(list) THEN Len(list) ELSE end.n
    IN SubSeq(list, 1, e)

\* Array.prototype.sort((a, b) => Key(b) - Key(a)): descending by key, stable. An
\* element comes after those of greater key and after the earlier ones of equal key.
sortDesc(list, Key(_)) ==
    LET n       == Len(list)
        place(i) == 1 + Cardinality({j \in 1..n : Key(list[j]) > Key(list[i])})
                      + Cardinality({j \in 1..(i - 1) : Key(list[j]) = Key(list[i])})
    IN [p \in 1..n |-> list[CHOOSE i \in 1..n : place(i) = p]]

RECURSIVE Distinct(_, _)
\* the keys of a Map filled in list order: each value once, in order of first appearance
Distinct(ks, acc) ==
    IF ks = <<>> THEN acc
    ELSE Distinct(Tail(ks), IF Head(ks) \in SeqToSet(acc) THEN acc ELSE Append(acc, Head(ks)))

RECURSIVE SumField(_, _)
\* rows.reduce((sum, row) => sum + (row[field] || 0), 0)
SumField(rows, field) ==
    IF rows = <<>> THEN 0 ELSE Or(Head(rows)[field], Num(0)).n + SumField(Tail(rows), field)

\* two digits, zero padded
Pad2(n) == IF n < 10 THEN "0" \o ToString(n) ELSE ToString(n)

\* new Date(ms).toISOString().split('T')[0], for instants of January 1970
toISODate(ms) == "1970-01-" \o Pad2(ms \div 86400000 + 1)

\* new Date(date).getTime() for such a date
DateToTime(date) == (ParseDigits(date, 9, 0) - 1) * 86400000

\* JSON.parse(JSON.stringify(v)) of a scalar: NaN and Infinity become null
JsonValue(v) == IF v.t = "nan" \/ v = Infinity THEN Null ELSE v

\* ... of an object of scalars: undefined members are dropped
JsonObject(r) == [k \in {x \in DOMAIN r : r[x].t # "undefined"} |-> JsonValue(r[k])]

\* ... of an array of such objects
JsonList(l) == [i \in 1..Len(l) |-> JsonObject(l[i])]

----------------------------------------------------------------------------
(* Analytics Engine SQL API: result rows and the query functions *)

ContentRow(event_type, content_id, content_type, event_count, unique_users, avg_completion, total_time) ==
    [event_type |-> event_type, content_id |-> content_id, content_type |-> content_type,
     event_count |-> event_count, unique_users |-> unique_users,
     avg_completion |-> avg_completion, total_time |-> total_time]

RevenueSummaryRow(total_transactions, total_revenue, total_coins, avg_transaction) ==
    [total_transactions |-> total_transactions, total_revenue |-> total_revenue,
     total_coins |-> total_coins, avg_transaction |-> avg_transaction]

\* the object {} read as a revenue summary row
EmptyRow == RevenueSummaryRow(Undefined, Undefined, Undefined, Undefined)

DemographicRow(country, city, unique_users, total_events) ==
    [country |-> country, city |-> city, unique_users |-> unique_users,
     total_events |-> total_events]

RevenueDetailRow(event_type, country, payment_method, revenue, coins, timestamp) ==
    [event_type |-> event_type, country |-> country, payment_method |-> payment_method,
     revenue |-> revenue, coins |-> coins, timestamp |-> timestamp]

\* the environment of a read request: c.env undefined, bound without API credentials, or bound
Envs == {"undefined", "noCredentials", "bound"}

\* !env?.ANALYTICS_API_TOKEN || !env?.ACCOUNT_ID
MissingCredentials(env) == env # "bound"

\* number of fetch calls one query function issues
Fetches(env) == IF MissingCredentials(env) THEN 0 ELSE 1

(* api = [ok, rows]: whether the SQL API answered with rows, and the rows.  *)
(* Each query function returns its default when the credentials are missing, *)
(* the response is not ok, or the fetch throws.                              *)
queryContentStats(env, api) ==
    IF MissingCredentials(env) \/ ~api.ok THEN [data |-> <<>>] ELSE [data |-> api.rows]

queryRevenueStats(env, api) ==
    IF MissingCredentials(env) \/ ~api.ok THEN [data |-> <<EmptyRow>>] ELSE [data |-> api.rows]

\* mutant: the rows are passed on whether or not the SQL API answered
queryDemographicsNoDefault(env, api) == [data |-> api.rows]

queryDemographics(env, api) ==
    IF MissingCredentials(env) \/ ~api.ok THEN [data |-> <<>>] ELSE [data |-> api.rows]

queryRevenueDetails(env, api) ==
    IF MissingCredentials(env) \/ ~api.ok THEN [data |-> <<>>] ELSE [data |-> api.rows]

----------------------------------------------------------------------------
(* The columns the SQL of each query function reads by position: those it  *)
(* selects (`blobN as name`, `doubleN as name`, or an aggregate of one) and *)
(* those its WHERE clause compares, with the dataset it reads FROM          *)

Column(name, kind, n) == [name |-> name, kind |-> kind, n |-> n]

queryContentStatsColumns ==
    [from    |-> "STUDIO_ANALYTICS",
     columns |-> {Column("event_type", "blobs", 1), Column("content_id", "blobs", 2),
                  Column("content_type", "blobs", 6), Column("unique_users", "blobs", 3),
                  Column("avg_completion", "doubles", 5), Column("total_time", "doubles", 3),
                  Column("timestamp", "doubles", 7)}]

queryRevenueStatsColumns ==
    [from    |-> "REVENUE_TRACKING",
     columns |-> {Column("total_revenue", "doubles", 1), Column("total_coins", "doubles", 2),
                  Column("avg_transaction", "doubles", 1), Column("timestamp", "doubles", 5)}]

queryDemographicsColumns ==
    [from    |-> "STUDIO_ANALYTICS",
     columns |-> {Column("country", "blobs", 4), Column("city", "blobs", 5),
                  Column("unique_users", "blobs", 3), Column("timestamp", "doubles", 7)}]

queryRealtimeDataColumns ==
    [from    |-> "STUDIO_ANALYTICS",
     columns |-> {Column("event_type", "blobs", 1), Column("content_id", "blobs", 2),
                  Column("user_id", "blobs", 3), Column("country", "blobs", 4),
                  Column("city", "blobs", 5), Column("timestamp", "doubles", 7)}]

queryRevenueDetailsColumns ==
    [from    |-> "REVENUE_TRACKING",
     columns |-> {Column("event_type", "blobs", 1), Column("country", "blobs", 4),
                  Column("payment_method", "blobs", 6), Column("revenue", "doubles", 1),
                  Column("coins", "doubles", 2), Column("timestamp", "doubles", 5)}]

queryContentPerformanceColumns ==
    [from    |-> "STUDIO_ANALYTICS",
     columns |-> {Column("event_type", "blobs", 1), Column("content_id", "blobs", 2),
                  Column("user_id", "blobs", 3), Column("revenue", "doubles", 1),
                  Column("duration", "doubles", 3), Column("timestamp", "doubles", 7)}]

\* the six query functions of the analytics routes
QueryColumns ==
    {queryContentStatsColumns, queryRevenueStatsColumns, queryDemographicsColumns,
     queryRealtimeDataColumns, queryRevenueDetailsColumns, queryContentPerformanceColumns}

\* what a query reads in column c of a stored data point
ColumnOf(point, c) == point[c.kind][c.n]

----------------------------------------------------------------------------
(* GET /api/stats/:studioId -- the builders *)

buildOverview(content, revenue, demographics) ==
    LET contentData == content.data
        revenueData == IF revenue.data = <<>> THEN EmptyRow ELSE revenue.data[1]
        demoData    == demographics.data
        totalViews    == SumField(contentData, "event_count")
        uniqueUsers   == SumField(demoData, "unique_users")
        totalTime     == SumField(contentData, "total_time")
        avgCompletion == SumField(contentData, "avg_completion")
    IN [totalViews     |-> Num(totalViews),
        uniqueUsers    |-> Num(uniqueUsers),
        totalRevenue   |-> Or(revenueData.total_revenue, Num(0)),
        totalCoins     |-> Or(revenueData.total_coins, Num(0)),
        transactions   |-> Or(revenueData.total_transactions, Num(0)),
        avgSessionTime |-> IF Len(contentData) > 0
                           THEN Quotient(totalTime, Len(contentData)) ELSE Num(0),
        completionRate |-> IF Len(contentData) > 0
                           THEN Quotient(avgCompletion, Len(contentData)) ELSE Num(0)]

TopContentLimit == 10

buildContentStats(data) ==
    LET contentData == data.data
        typed  == SelectSeq(contentData, LAMBDA row : Truthy(row.event_type))
        withId == SelectSeq(contentData, LAMBDA row : Truthy(row.content_id))
        top    == slice(sortDesc(withId, LAMBDA row : Or(row.event_count, Num(0)).n),
                        Num(TopContentLimit))
    IN [byType |->
            [i \in 1..Len(typed) |->
                [event       |-> Or(typed[i].event_type, Str("")),
                 contentId   |-> Or(typed[i].content_id, Str("")),
                 views       |-> Or(typed[i].event_count, Num(0)),
                 uniqueUsers |-> Or(typed[i].unique_users, Num(0)),
                 avgValue    |-> Or(typed[i].avg_completion, Num(0))]],
        topContent |->
            [i \in 1..Len(top) |->
                [id             |-> Or(top[i].content_id, Str("")),
                 views          |-> Or(top[i].event_count, Num(0)),
                 users          |-> Or(top[i].unique_users, Num(0)),
                 completionRate |-> Or(top[i].avg_completion, Num(0))]]]

buildRevenueStats(data) == [byCountry |-> <<>>, byMethod |-> <<>>, timeline |-> <<>>]

LocationLimit == 50

\* an answer of the SQL API that carries no data list
NoData == [x \in {} |-> <<>>]

\* data?.data || []
DataOf(data) == IF "data" \in DOMAIN data THEN data.data ELSE <<>>

\* mutant: the locations are truncated in the order of the rows, without sorting
buildDemographicsUnsorted(data) ==
    LET demoData == DataOf(data)
        located  == SelectSeq(demoData, LAMBDA row : Truthy(row.country))
        top      == slice(located, Num(LocationLimit))
    IN [byLocation |->
            [i \in 1..Len(top) |->
                [country |-> Or(top[i].country, Str("Unknown")),
                 city    |-> Or(top[i].city, Str("Unknown")),
                 users   |-> Or(top[i].unique_users, Num(0)),
                 events  |-> Or(top[i].total_events, Num(0))]]]

buildDemographics(data) ==
    LET demoData == DataOf(data)
        located  == SelectSeq(demoData, LAMBDA row : Truthy(row.country))
        top      == slice(sortDesc(located, LAMBDA row : Or(row.unique_users, Num(0)).n),
                          Num(LocationLimit))
    IN [byLocation |->
            [i \in 1..Len(top) |->
                [country |-> Or(top[i].country, Str("Unknown")),
                 city    |-> Or(top[i].city, Str("Unknown")),
                 users   |-> Or(top[i].unique_users, Num(0)),
                 events  |-> Or(top[i].total_events, Num(0))]]]

\* the StudioStats object of the stats handler
StudioStats(studioId, days, dateNow, contentData, revenueData, demographicsData) ==
    [studioId     |-> Str(studioId),
     period       |-> Str(NumberToString(days) \o "d"),
     generated    |-> Num(dateNow),
     overview     |-> buildOverview(contentData, revenueData, demographicsData),
     content      |-> buildContentStats(contentData),
     revenue      |-> buildRevenueStats(revenueData),
     demographics |-> buildDemographics(demographicsData)]

\* JSON.stringify of a StudioStats, as the reader of the text parses it
StatsJson(stats) ==
    [studioId     |-> JsonValue(stats.studioId),
     period       |-> JsonValue(stats.period),
     generated    |-> JsonValue(stats.generated),
     overview     |-> JsonObject(stats.overview),
     content      |-> [byType     |-> JsonList(stats.content.byType),
                       topContent |-> JsonList(stats.content.topContent)],
     revenue      |-> [byCountry |-> JsonList(stats.revenue.byCountry),
                       byMethod  |-> JsonList(stats.revenue.byMethod),
                       timeline  |-> JsonList(stats.revenue.timeline)],
     demographics |-> [byLocation |-> JsonList(stats.demographics.byLocation)]]

----------------------------------------------------------------------------
(* GET /api/revenue/:studioId -- the aggregation *)

\* row.timestamp || Date.now(), as a calendar date
DateOfRow(row, dateNow) == toISODate(Or(row.timestamp, Num(dateNow)).n)

\* the timeline Map: one entry per date, in order of first appearance
TimelineOf(rows, dateNow) ==
    LET dates == Distinct([i \in 1..Len(rows) |-> DateOfRow(rows[i], dateNow)], <<>>)
    IN [d \in 1..Len(dates) |->
          LET on == SelectSeq(rows, LAMBDA row : DateOfRow(row, dateNow) = dates[d])
          IN [date         |-> Str(dates[d]),
              revenue      |-> Num(SumField(on, "revenue")),
              coins        |-> Num(SumField(on, "coins")),
              transactions |-> Num(Len(on))]]

\* mutant: each country keeps the amount of its first row only
ByCountryOfFirstRow(rows) ==
    LET with      == SelectSeq(rows, LAMBDA row : Truthy(row.country))
        countries == Distinct([i \in 1..Len(with) |-> with[i].country], <<>>)
    IN [k \in 1..Len(countries) |->
          LET of == SelectSeq(with, LAMBDA row : row.country = countries[k])
          IN [country      |-> countries[k],
              revenue      |-> Or(of[1].revenue, Num(0)),
              coins        |-> Num(SumField(of, "coins")),
              transactions |-> Num(Len(of))]]

\* the byCountry Map: rows without a country are skipped
ByCountryOf(rows) ==
    LET with      == SelectSeq(rows, LAMBDA row : Truthy(row.country))
        countries == Distinct([i \in 1..Len(with) |-> with[i].country], <<>>)
    IN [k \in 1..Len(countries) |->
          LET of == SelectSeq(with, LAMBDA row : row.country = countries[k])
          IN [country      |-> countries[k],
              revenue      |-> Num(SumField(of, "revenue")),
              coins        |-> Num(SumField(of, "coins")),
              transactions |-> Num(Len(of))]]

\* the byMethod Map: rows without a payment method are skipped
ByMethodOf(rows) ==
    LET with    == SelectSeq(rows, LAMBDA row : Truthy(row.payment_method))
        methods == Distinct([i \in 1..Len(with) |-> with[i].payment_method], <<>>)
    IN [k \in 1..Len(methods) |->
          LET of == SelectSeq(with, LAMBDA row : row.payment_method = methods[k])
          IN [method       |-> methods[k],
              revenue      |-> Num(SumField(of, "revenue")),
              transactions |-> Num(Len(of))]]

CountryLimit == 20

\* the RevenueStats object of the revenue handler
RevenueStats(result, days, dateNow) ==
    LET rows         == result.data
        totalRevenue == SumField(rows, "revenue")
        countries    == ByCountryOf(rows)
        methods      == ByMethodOf(rows)
        withAvg      == [k \in 1..Len(countries) |->
                           [country        |-> countries[k].country,
                            revenue        |-> countries[k].revenue,
                            coins          |-> countries[k].coins,
                            transactions   |-> countries[k].transactions,
                            avgTransaction |->
                                IF countries[k].transactions.n > 0
                                THEN Quotient(countries[k].revenue.n,
                                              countries[k].transactions.n)
                                ELSE Num(0)]]
        withPct      == [k \in 1..Len(methods) |->
                           [method       |-> methods[k].method,
                            revenue      |-> methods[k].revenue,
                            transactions |-> methods[k].transactions,
                            percentage   |->
                                IF totalRevenue > 0
                                THEN RoundedHundredths(methods[k].revenue.n, totalRevenue)
                                ELSE Num(0)]]
    IN [byCountry |-> slice(sortDesc(withAvg, LAMBDA e : e.revenue.n), Num(CountryLimit)),
        byMethod  |-> sortDesc(withPct, LAMBDA e : e.revenue.n),
        timeline  |-> slice(sortDesc(TimelineOf(rows, dateNow),
                                     LAMBDA e : DateToTime(e.date.s)),
                            days)]

\* mutant: the average is taken whatever the number of transactions
RevenueSummaryUnguarded(result) ==
    LET rows              == result.data
        totalRevenue      == SumField(rows, "revenue")
        totalTransactions == Len(rows)
    IN [total          |-> Num(totalRevenue),
        coins          |-> Num(SumField(rows, "coins")),
        transactions   |-> Num(totalTransactions),
        avgTransaction |-> Quotient(totalRevenue, totalTransactions)]

\* the summary block of the revenue response
RevenueSummary(result) ==
    LET rows              == result.data
        totalRevenue      == SumField(rows, "revenue")
        totalTransactions == Len(rows)
    IN [total          |-> Num(totalRevenue),
        coins          |-> Num(SumField(rows, "coins")),
        transactions   |-> Num(totalTransactions),
        avgTransaction |-> IF totalTransactions > 0
                           THEN Quotient(totalRevenue, totalTransactions) ELSE Num(0)]

\* JSON.stringify of a RevenueStats, as the reader of the text parses it
RevenueStatsJson(stats) ==
    [byCountry |-> JsonList(stats.byCountry),
     byMethod  |-> JsonList(stats.byMethod),
     timeline  |-> JsonList(stats.timeline)]

\* the body of the revenue response on a computed answer:
\* { studioId, period, summary, ...revenueStats }
RevenueResponseJson(studioId, days, result, stats) ==
    [studioId  |-> Str(studioId),
     period    |-> Str(NumberToString(days) \o "d"),
     summary   |-> JsonObject(RevenueSummary(result)),
     byCountry |-> JsonList(stats.byCountry),
     byMethod  |-> JsonList(stats.byMethod),
     timeline  |-> JsonList(stats.timeline)]

----------------------------------------------------------------------------
(* Read requests and the rows the SQL API can answer with *)

TickSeconds == 150
MaxClock    == 450
MaxEntries  == 2

\* expirationTtl of both cached resources, in seconds
CacheTtl == 300

\* Date.now() of the read side, in milliseconds, at clock second c
ReadNow(c) == 1000000000 + c * 1000

\* the state of the datasets a query observes
DataSets == {"A", "B"}

ContentRowsOf(g) ==
    IF g = "A"
    THEN <<ContentRow(Str("chapter_opened"), Str("ch-1"), Str("chapter"),
                      Num(10), Num(4), Num(50), Num(120)),
           ContentRow(Str("flick_started"), Str("fl-1"), Str("flick"),
                      Num(25), Num(6), Num(80), Num(61)),
           ContentRow(Str("page_viewed"), Str(""), Str(""),
                      Num(3), Num(2), Num(0), Num(0))>>
    ELSE <<ContentRow(Str("chapter_completed"), Str("ch-2"), Str("chapter"),
                      Num(7), Num(7), Num(100), Num(90))>>

RevenueSummaryOf(g) ==
    IF g = "A"
    THEN <<RevenueSummaryRow(Num(3), Num(35), Num(350), Quotient(35, 3))>>
    ELSE <<RevenueSummaryRow(Num(4), Num(40), Num(0), Num(10))>>

DemographicRowsOf(g) ==
    IF g = "A"
    THEN <<DemographicRow(Str("US"), Str("Austin"), Num(4), Num(20)),
           DemographicRow(Str("JP"), Str("Tokyo"), Num(6), Num(18)),
           DemographicRow(Str(""), Str(""), Num(1), Num(1))>>
    ELSE <<DemographicRow(Str("DE"), Str(""), Num(2), Num(9))>>

\* revenue rows arrive newest first (ORDER BY double5 DESC)
RevenueDetailRowsOf(g) ==
    IF g = "A"
    THEN <<RevenueDetailRow(Str("purchase_completed"), Str("US"), Str("card"),
                            Num(10), Num(100), Num(999000000)),
           RevenueDetailRow(Str("purchase_completed"), Str("US"), Str("paypal"),
                            Num(20), Num(200), Num(900000000)),
           RevenueDetailRow(Str("coin_purchase"), Str("JP"), Str("card"),
                            Num(5), Num(50), Num(880000000))>>
    ELSE <<RevenueDetailRow(Str("tip_sent"), Str("BR"), Str("card"),
                            Num(8), Num(0), Num(990000000)),
           RevenueDetailRow(Str("tip_sent"), Str(""), Str(""),
                            Num(8), Num(0), Num(950000000)),
           RevenueDetailRow(Str("subscription_renewed"), Str("FR"), Str("card"),
                            Num(8), Num(0), Num(700000000)),
           RevenueDetailRow(Str("refund_issued"), Str("FR"), Str("wallet"),
                            Num(0), Num(0), Undefined)>>

\* studio and ?days= of a read request; days is undefined when the parameter is absent
ReadParams ==
    {[studioId |-> "studio-1", days |-> Undefined],
     [studioId |-> "studio-1", days |-> Str("7")],
     [studioId |-> "studio-2", days |-> Undefined]}

(* The circumstances of a read request: its environment, whether CACHE.get  *)
(* or CACHE.put rejects, whether the SQL API answers, and what it answers.   *)
ReadCircumstances ==
    {[env |-> "bound", kv |-> "ok", apiOk |-> TRUE, failing |-> {}, data |-> g] :
         g \in DataSets}
    \cup {[env |-> e, kv |-> "ok", apiOk |-> TRUE, failing |-> {}, data |-> "A"] :
              e \in {"undefined", "noCredentials"}}
    \cup {[env |-> "bound", kv |-> k, apiOk |-> TRUE, failing |-> {}, data |-> "A"] :
              k \in {"getThrows", "putThrows"}}
    \cup {[env |-> "bound", kv |-> "ok", apiOk |-> FALSE, failing |-> {}, data |-> "A"]}

\* the three aggregator queries of the stats handler
StatsQueries == {"content", "revenue", "demographics"}

\* circumstances in which some of the three stats queries fail and the others answer
PartialCircumstances ==
    {[env |-> "bound", kv |-> "ok", apiOk |-> TRUE, failing |-> f, data |-> g] :
         f \in SUBSET StatsQueries, g \in DataSets}

ReadRequest(endpoint, p, c) ==
    [endpoint |-> endpoint, studioId |-> p.studioId, days |-> p.days,
     env |-> c.env, kv |-> c.kv, apiOk |-> c.apiOk, failing |-> c.failing, data |-> c.data]

ReadRequests(endpoint) ==
    {ReadRequest(endpoint, p, c) : p \in ReadParams, c \in ReadCircumstances}

NoRead == ReadRequest("none", [studioId |-> "", days |-> Undefined],
                      [env |-> "undefined", kv |-> "ok", apiOk |-> FALSE, failing |-> {},
                       data |-> "A"])

\* parseInt(c.req.query('days') || '30')
DaysOf(r) == parseInt(Or(r.days, Str("30")).s)

\* `stats:${studioId}:${days}d` and `revenue:${studioId}:${days}d`
cacheKey(prefix, studioId, days) ==
    prefix \o ":" \o studioId \o ":" \o NumberToString(days) \o "d"

KeyOf(r) == cacheKey(r.endpoint, r.studioId, DaysOf(r))

\* values of ?days= beyond the usual ones: zero, negative, not a number
DayValues == {Undefined, Str("7"), Str("1"), Str("0"), Str("-1"), Str("abc")}

CacheKeys ==
    {KeyOf(r) : r \in ReadRequests("stats") \cup ReadRequests("revenue")}
    \cup {cacheKey(e, "studio-1", parseInt(Or(d, Str("30")).s)) :
              e \in {"stats", "revenue"}, d \in DayValues}

----------------------------------------------------------------------------
(* The KV namespace CACHE *)

NoEntry == [value |-> <<>>, expires |-> 0]

EmptyCache == [k \in CacheKeys |-> NoEntry]

\* CACHE.get(key, 'json') at second t: the stored value, or nothing once it has expired
KvGet(kv, key, t) ==
    IF kv[key].value # <<>> /\ t < kv[key].expires THEN kv[key].value ELSE <<>>

\* mutant: the value is stored already expired
KvPutExpired(kv, key, value, ttl, t) ==
    [kv EXCEPT ![key] = [value |-> <<value>>, expires |-> t]]

\* CACHE.put(key, text, { expirationTtl }) at second t
KvPut(kv, key, value, ttl, t) ==
    [kv EXCEPT ![key] = [value |-> <<value>>, expires |-> t + ttl]]

\* expired keys disappear from the namespace
KvExpire(kv, t) ==
    [k \in CacheKeys |-> IF kv[k].value # <<>> /\ t >= kv[k].expires THEN NoEntry ELSE kv[k]]

Stored(kv) == {k \in CacheKeys : kv[k].value # <<>>}

----------------------------------------------------------------------------
(* The read handlers.  A handler's outcome is its response, the number of   *)
(* dataset queries (fetch calls) and CACHE.put calls it issued, and the     *)
(* cache after it.                                                          *)

ReadError(error, details) ==
    [error |-> Str(error), details |-> Str(details), code |-> Num(500)]

Outcome(status, body, nq, np, kv) ==
    [status |-> status, body |-> <<body>>, queries |-> nq, puts |-> np, cache |-> kv]

\* c.env?.CACHE.get(cacheKey, 'json'): undefined without bindings
CachedFor(r, kv, t) == IF r.env = "undefined" THEN <<>> ELSE KvGet(kv, KeyOf(r), t)

GetRejects(r) == r.env # "undefined" /\ r.kv = "getThrows"
PutRejects(r) == r.env # "undefined" /\ r.kv = "putThrows"

\* the rows the SQL API holds for query q of request r: those the request is
\* run against when it names them, the stock rows of its dataset otherwise
RowsSeen(r, q, stock) == IF r.data = "given" THEN r.rows[q] ELSE stock

\* the stats handler that recomputes on every request, cached value or not
StatsHandlerUncached(r, kv, t) ==
    LET days   == DaysOf(r)
        key    == KeyOf(r)
        api(q, rows) == [ok |-> r.apiOk /\ q \notin r.failing, rows |-> rows]
        stats  == StudioStats(r.studioId, days, ReadNow(t),
                     queryContentStats(r.env, api("content", RowsSeen(r, "content", ContentRowsOf(r.data)))),
                     queryRevenueStats(r.env, api("revenue", RowsSeen(r, "revenue", RevenueSummaryOf(r.data)))),
                     queryDemographics(r.env, api("demographics",
                                           RowsSeen(r, "demographics", DemographicRowsOf(r.data)))))
        nq     == 3 * Fetches(r.env)
    IN IF GetRejects(r)
       THEN Outcome(500, ReadError("Failed to retrieve statistics", "KV GET failed"), 0, 0, kv)
       ELSE IF r.env = "undefined"
       THEN Outcome(200, StatsJson(stats), nq, 0, kv)
       ELSE IF PutRejects(r)
       THEN Outcome(500, ReadError("Failed to retrieve statistics", "KV PUT failed"), nq, 1, kv)
       ELSE Outcome(200, StatsJson(stats), nq, 1,
                    KvPut(kv, key, StatsJson(stats), CacheTtl, t))

\* GET /api/stats/:studioId
StatsHandler(r, kv, t) ==
    LET days   == DaysOf(r)
        key    == KeyOf(r)
        cached == CachedFor(r, kv, t)
        api(q, rows) == [ok |-> r.apiOk /\ q \notin r.failing, rows |-> rows]
        stats  == StudioStats(r.studioId, days, ReadNow(t),
                     queryContentStats(r.env, api("content", RowsSeen(r, "content", ContentRowsOf(r.data)))),
                     queryRevenueStats(r.env, api("revenue", RowsSeen(r, "revenue", RevenueSummaryOf(r.data)))),
                     queryDemographics(r.env, api("demographics",
                                           RowsSeen(r, "demographics", DemographicRowsOf(r.data)))))
        nq     == 3 * Fetches(r.env)
    IN IF GetRejects(r)
       THEN Outcome(500, ReadError("Failed to retrieve statistics", "KV GET failed"), 0, 0, kv)
       ELSE IF cached # <<>>
       THEN Outcome(200, StatsJson(cached[1]), 0, 0, kv)
       ELSE IF r.env = "undefined"
       THEN Outcome(200, StatsJson(stats), nq, 0, kv)
       ELSE IF PutRejects(r)
       THEN Outcome(500, ReadError("Failed to retrieve statistics", "KV PUT failed"), nq, 1, kv)
       ELSE Outcome(200, StatsJson(stats), nq, 1,
                    KvPut(kv, key, StatsJson(stats), CacheTtl, t))

\* GET /api/revenue/:studioId
RevenueHandler(r, kv, t) ==
    LET days   == DaysOf(r)
        key    == KeyOf(r)
        cached == CachedFor(r, kv, t)
        result == queryRevenueDetails(r.env, [ok |-> r.apiOk,
                                              rows |-> RowsSeen(r, "details",
                                                               RevenueDetailRowsOf(r.data))])
        revenueStats == RevenueStats(result, days, ReadNow(t))
        nq     == Fetches(r.env)
        body   == RevenueResponseJson(r.studioId, days, result, revenueStats)
    IN IF GetRejects(r)
       THEN Outcome(500, ReadError("Failed to retrieve revenue data", "KV GET failed"), 0, 0, kv)
       ELSE IF cached # <<>>
       THEN Outcome(200, RevenueStatsJson(cached[1]), 0, 0, kv)
       ELSE IF r.env = "undefined"
       THEN Outcome(200, body, nq, 0, kv)
       ELSE IF PutRejects(r)
       THEN Outcome(500, ReadError("Failed to retrieve revenue data", "KV PUT failed"), nq, 1, kv)
       ELSE Outcome(200, body, nq, 1,
                    KvPut(kv, key, RevenueStatsJson(revenueStats), CacheTtl, t))

----------------------------------------------------------------------------
(* GET /api/realtime/:studioId and GET /api/content/:studioId/:contentId *)

RealtimeRow(event_type, content_id, user_id, country, city, timestamp) ==
    [event_type |-> event_type, content_id |-> content_id, user_id |-> user_id,
     country |-> country, city |-> city, timestamp |-> timestamp]

PerformanceRow(event_type, user_id, revenue, duration, timestamp) ==
    [event_type |-> event_type, user_id |-> user_id, revenue |-> revenue,
     duration |-> duration, timestamp |-> timestamp]

queryRealtimeData(env, api) ==
    IF MissingCredentials(env) \/ ~api.ok THEN [data |-> <<>>] ELSE [data |-> api.rows]

\* mutant: a query the SQL API does not answer is passed on as it is
queryContentPerformanceRaw(env, api) == [data |-> api.rows]

queryContentPerformance(env, api) ==
    IF MissingCredentials(env) \/ ~api.ok THEN [data |-> <<>>] ELSE [data |-> api.rows]

\* `${v}` for a string or a missing value
TemplateOf(v) ==
    IF v.t = "string" THEN v.s ELSE IF v.t = "null" THEN "null" ELSE "undefined"

\* `${row.country}-${row.city}`
LocationKey(row) == TemplateOf(row.country) \o "-" \o TemplateOf(row.city)

\* the realtime window, in minutes
WindowMinutes == 5

RealtimeLimit == 10

\* Math.round(a / b) for integers a >= 0 and b > 0
RoundedQuotient(a, b) == (2 * a + b) \div (2 * b)

\* the RealtimeStats object of the realtime handler
RealtimeStats(studioId, dateNow, recentData) ==
    LET rows      == recentData.data
        users     == {Or(rows[i].user_id, Str("")) : i \in 1..Len(rows)}
        keys      == Distinct([i \in 1..Len(rows) |-> LocationKey(rows[i])], <<>>)
        locations ==
            [k \in 1..Len(keys) |->
                LET at == SelectSeq(rows, LAMBDA row : LocationKey(row) = keys[k])
                IN [country |-> Or(at[1].country, Str("Unknown")),
                    city    |-> Or(at[1].city, Str("Unknown")),
                    count   |-> Num(Len(at))]]
        with      == SelectSeq(rows, LAMBDA row : Truthy(row.content_id))
        ids       == Distinct([i \in 1..Len(with) |-> with[i].content_id], <<>>)
        content   ==
            [k \in 1..Len(ids) |->
                [contentId   |-> ids[k],
                 contentType |-> IF Includes(ids[k].s, "chapter")
                                 THEN Str("chapter") ELSE Str("flick"),
                 users       |-> Num(Cardinality({with[i].user_id :
                                        i \in {j \in 1..Len(with) :
                                                 with[j].content_id = ids[k]}}))]]
    IN [studioId        |-> Str(studioId),
        timestamp       |-> Num(dateNow),
        activeUsers     |-> Num(Cardinality(users)),
        totalEvents     |-> Num(Len(rows)),
        eventsPerMinute |-> Num(RoundedQuotient(Len(rows), WindowMinutes)),
        locations       |-> slice(sortDesc(locations, LAMBDA e : e.count.n),
                                  Num(RealtimeLimit)),
        activeContent   |-> slice(sortDesc(content, LAMBDA e : e.users.n),
                                  Num(RealtimeLimit))]

\* JSON.stringify of a RealtimeStats, as the reader of the text parses it
RealtimeJson(stats) ==
    [studioId        |-> JsonValue(stats.studioId),
     timestamp       |-> JsonValue(stats.timestamp),
     activeUsers     |-> JsonValue(stats.activeUsers),
     totalEvents     |-> JsonValue(stats.totalEvents),
     eventsPerMinute |-> JsonValue(stats.eventsPerMinute),
     locations       |-> JsonList(stats.locations),
     activeContent   |-> JsonList(stats.activeContent)]

\* row.event_type === 'chapter_completed' || row.event_type === 'flick_completed'
IsCompletion(row) == row.event_type \in {Str("chapter_completed"), Str("flick_completed")}

\* the timeline of the content handler, before sorting: one entry per date
PerformanceTimeline(rows, dateNow) ==
    LET dates == Distinct([i \in 1..Len(rows) |-> DateOfRow(rows[i], dateNow)], <<>>)
    IN [d \in 1..Len(dates) |->
          LET on   == SelectSeq(rows, LAMBDA row : DateOfRow(row, dateNow) = dates[d])
              done == SelectSeq(on, IsCompletion)
          IN [date           |-> Str(dates[d]),
              views          |-> Num(Len(on)),
              users          |-> Num(Cardinality({on[i].user_id : i \in 1..Len(on)})),
              completions    |-> Num(Len(done)),
              completionRate |-> IF Len(on) > 0 THEN Quotient(Len(done), Len(on))
                                 ELSE Num(0),
              avgTime        |-> Num(0)]]

\* the contentStats object of the content handler
ContentPerformance(studioId, contentId, days, dateNow, result) ==
    LET rows             == result.data
        totalViews       == Len(rows)
        totalCompletions == Len(SelectSeq(rows, IsCompletion))
        totalTime        == SumField(rows, "duration")
    IN [studioId   |-> Str(studioId),
        contentId  |-> Str(contentId),
        period     |-> Str(NumberToString(days) \o "d"),
        summary    |->
            [totalViews     |-> Num(totalViews),
             uniqueUsers    |-> Num(Cardinality({rows[i].user_id : i \in 1..Len(rows)})),
             completions    |-> Num(totalCompletions),
             completionRate |-> IF totalViews > 0
                                THEN Quotient(totalCompletions, totalViews) ELSE Num(0),
             avgViewTime    |-> IF totalViews > 0
                                THEN Quotient(totalTime, totalViews) ELSE Num(0),
             revenue        |-> Num(SumField(rows, "revenue"))],
        timeline   |-> sortDesc(PerformanceTimeline(rows, dateNow),
                                LAMBDA e : DateToTime(e.date.s)),
        engagement |-> [likes |-> Num(0), comments |-> Num(0), shares |-> Num(0)]]

\* JSON.stringify of a contentStats, as the reader of the text parses it
ContentPerformanceJson(stats) ==
    [studioId   |-> JsonValue(stats.studioId),
     contentId  |-> JsonValue(stats.contentId),
     period     |-> JsonValue(stats.period),
     summary    |-> JsonObject(stats.summary),
     timeline   |-> JsonList(stats.timeline),
     engagement |-> JsonObject(stats.engagement)]

\* realtime rows arrive newest first (ORDER BY double7 DESC)
RealtimeRowsOf(g) ==
    IF g = "A"
    THEN <<RealtimeRow(Str("chapter_opened"), Str("chapter-1"), Str("u1"),
                       Str("US"), Str("Austin"), Num(999000000)),
           RealtimeRow(Str("flick_started"), Str("fl-9"), Str("u2"),
                       Str("US"), Str("Austin"), Num(998000000)),
           RealtimeRow(Str("chapter_opened"), Str("chapter-1"), Str("u2"),
                       Str("JP"), Str("Tokyo"), Num(997000000)),
           RealtimeRow(Str("login"), Str(""), Str("u3"),
                       Str(""), Str(""), Num(996000000))>>
    ELSE <<RealtimeRow(Str("flick_started"), Str("fl-9"), Str(""),
                       Str("DE"), Str(""), Num(999500000))>>

\* content rows arrive newest first (ORDER BY double7 DESC)
PerformanceRowsOf(g) ==
    IF g = "A"
    THEN <<PerformanceRow(Str("chapter_completed"), Str("u1"), Num(0), Num(300),
                          Num(999000000)),
           PerformanceRow(Str("chapter_opened"), Str("u1"), Num(0), Num(0),
                          Num(998000000)),
           PerformanceRow(Str("chapter_opened"), Str("u2"), Num(0), Num(40),
                          Num(900000000))>>
    ELSE <<PerformanceRow(Str("flick_completed"), Str("u4"), Num(2), Num(15),
                          Num(800000000))>>

\* circumstances of a request whose single dataset query may fail
QueryCircumstances ==
    {[env |-> e, kv |-> "ok", apiOk |-> ok, failing |-> {}, data |-> g] :
         e \in Envs, ok \in BOOLEAN, g \in DataSets}

\* a request to the content route: a read request that also names the content
ContentRequest(p, contentId, c) ==
    [endpoint |-> "content", studioId |-> p.studioId, contentId |-> contentId,
     days |-> p.days, env |-> c.env, kv |-> c.kv, apiOk |-> c.apiOk,
     failing |-> c.failing, data |-> c.data]

\* GET /api/realtime/:studioId
RealtimeHandler(r, kv, t) ==
    LET recentData == queryRealtimeData(r.env, [ok |-> r.apiOk,
                                                rows |-> RowsSeen(r, "realtime",
                                                                 RealtimeRowsOf(r.data))])
    IN Outcome(200, RealtimeJson(RealtimeStats(r.studioId, ReadNow(t), recentData)),
               Fetches(r.env), 0, kv)

\* GET /api/content/:studioId/:contentId
ContentHandler(r, kv, t) ==
    LET days   == parseInt(Or(r.days, Str("7")).s)
        result == queryContentPerformance(r.env, [ok |-> r.apiOk,
                                                  rows |-> RowsSeen(r, "performance",
                                                                   PerformanceRowsOf(r.data))])
    IN Outcome(200,
               ContentPerformanceJson(
                   ContentPerformance(r.studioId, r.contentId, days, ReadNow(t), result)),
               Fetches(r.env), 0, kv)

NoReadResponse == [status |-> 0, body |-> <<>>]

\* the handler's outcome becomes the state of the finished request
Answer(r, o) ==
    /\ Cardinality(Stored(o.cache)) <= MaxEntries
    /\ rd' = r
    /\ rpc' = "done"
    /\ queries' = o.queries
    /\ puts' = o.puts
    /\ rresp' = [status |-> o.status, body |-> o.body]
    /\ cache' = o.cache
    /\ served' = IF o.cache # cache
                 THEN [served EXCEPT ![KeyOf(r)] = o.body] ELSE served
    /\ UNCHANGED clock

GetStats ==
    /\ rpc = "idle"
    /\ \E r \in ReadRequests("stats") : Answer(r, StatsHandler(r, cache, clock))
    /\ UNCHANGED trackVars

\* stats requests during which some of the three aggregator queries fail
PartialRequests ==
    {ReadRequest("stats", [studioId |-> "studio-1", days |-> Undefined], c) :
         c \in PartialCircumstances}

GetStatsPartial ==
    /\ rpc = "idle"
    /\ \E r \in PartialRequests : Answer(r, StatsHandler(r, cache, clock))
    /\ UNCHANGED trackVars

GetRevenue ==
    /\ rpc = "idle"
    /\ \E r \in ReadRequests("revenue") : Answer(r, RevenueHandler(r, cache, clock))
    /\ UNCHANGED trackVars

GetRealtime ==
    /\ rpc = "idle"
    /\ \E p \in ReadParams, c \in QueryCircumstances :
          LET r == ReadRequest("realtime", [p EXCEPT !.days = Undefined], c)
          IN Answer(r, RealtimeHandler(r, cache, clock))
    /\ UNCHANGED trackVars

GetContent ==
    /\ rpc = "idle"
    /\ \E p \in ReadParams, c \in QueryCircumstances :
          LET r == ContentRequest(p, "chapter-1", c)
          IN Answer(r, ContentHandler(r, cache, clock))
    /\ UNCHANGED trackVars

\* revenue requests whose dataset query may fail
GetRevenueQuery ==
    /\ rpc = "idle"
    /\ \E p \in ReadParams, c \in QueryCircumstances :
          LET r == ReadRequest("revenue", p, c)
          IN Answer(r, RevenueHandler(r, cache, clock))
    /\ UNCHANGED trackVars

----------------------------------------------------------------------------
(* Requests run against given rows: what a handler folds them into *)

MaxRows == 3

RECURSIVE SeqsUpTo(_, _)
\* the lists of at most n members of S
SeqsUpTo(S, n) ==
    IF n = 0 THEN {<<>>}
    ELSE LET shorter == SeqsUpTo(S, n - 1)
         IN shorter \cup {Append(l, x) : l \in {m \in shorter : Len(m) = n - 1}, x \in S}

\* a request answered by a bound environment whose SQL API holds the given rows:
\* rows names, for each query the handler issues, the rows answered to it
GivenRequest(endpoint, days, rows) ==
    [endpoint |-> endpoint, studioId |-> "studio-1", days |-> days,
     env |-> "bound", kv |-> "ok", apiOk |-> TRUE, failing |-> {},
     data |-> "given", rows |-> rows]

\* the request with one more parameter
Extend(r, name, v) == [x \in DOMAIN r \cup {name} |-> IF x = name THEN v ELSE r[x]]

\* revenue rows that differ in country and amount
CountryRowKinds ==
    {RevenueDetailRow(Str("purchase_completed"), c[1], Str("card"), c[2], Num(0),
                      Num(990000000)) :
         c \in {<<Str("US"), Num(10)>>, <<Str("US"), Num(20)>>, <<Str("JP"), Num(5)>>,
                <<Str("JP"), Num(20)>>, <<Str(""), Num(10)>>}}

\* one revenue row for each of n countries, of equal or of growing amounts
ManyCountryRows(n, tied) ==
    [i \in 1..n |->
        RevenueDetailRow(Str("purchase_completed"), Str("C" \o Pad2(i)), Str("card"),
                         Num(IF tied THEN 5 ELSE i), Num(0), Num(990000000))]

CountryRowSets ==
    SeqsUpTo(CountryRowKinds, MaxRows)
    \cup {ManyCountryRows(n, tied) :
              n \in (CountryLimit - 1)..(CountryLimit + 1), tied \in BOOLEAN}

\* revenue requests that find no cached value, over rows of few or many countries
GetRevenueByCountry ==
    /\ rpc = "idle"
    /\ \E rows \in CountryRowSets :
          LET r == GivenRequest("revenue", Undefined, [details |-> rows])
          IN /\ CachedFor(r, cache, clock) = <<>>
             /\ Answer(r, RevenueHandler(r, cache, clock))
    /\ UNCHANGED trackVars

\* values of ?minutes=
MinuteValues == {Undefined, Str("0"), Str("10"), Str("abc")}

\* rows whose sums and counts can be zero
ZeroContentRows ==
    SeqsUpTo({ContentRow(Str("chapter_opened"), Str("ch-1"), Str("chapter"),
                         Num(10), Num(4), c, t) :
                  c \in {Num(0), Num(50)}, t \in {Num(0), Num(120)}}, MaxRows)

ZeroRevenueRows ==
    SeqsUpTo({RevenueDetailRow(Str("purchase_completed"), c, m, v, Num(0), Num(990000000)) :
                  c \in {Str("US"), Str("")}, m \in {Str("card"), Str("")},
                  v \in {Num(0), Num(10)}}, MaxRows)

ZeroPerformanceRows ==
    SeqsUpTo({PerformanceRow(e, Str("u1"), Num(0), d, Num(990000000)) :
                  e \in {Str("chapter_completed"), Str("chapter_opened")},
                  d \in {Num(0), Num(40)}}, MaxRows)

ZeroRealtimeRows ==
    SeqsUpTo({RealtimeRow(Str("chapter_opened"), Str("chapter-1"), u,
                          Str("US"), Str("Austin"), Num(999000000)) :
                  u \in {Str("u1"), Str("u2")}}, MaxRows)

\* stats requests arriving at an empty cache, over few or no content rows
GetStatsZero ==
    /\ rpc = "idle"
    /\ Stored(cache) = {}
    /\ \E rows \in ZeroContentRows, d \in DayValues :
          LET r == GivenRequest("stats", d,
                                [content |-> rows, revenue |-> RevenueSummaryOf("A"),
                                 demographics |-> DemographicRowsOf("A")])
          IN Answer(r, StatsHandler(r, cache, clock))
    /\ UNCHANGED trackVars

\* revenue requests arriving at an empty cache, over few or no rows
GetRevenueZero ==
    /\ rpc = "idle"
    /\ Stored(cache) = {}
    /\ \E rows \in ZeroRevenueRows, d \in DayValues :
          LET r == GivenRequest("revenue", d, [details |-> rows])
          IN Answer(r, RevenueHandler(r, cache, clock))
    /\ UNCHANGED trackVars

\* content requests over few or no rows (the handler neither reads nor writes the cache;
\* it is followed while the cache is empty)
GetContentZero ==
    /\ rpc = "idle"
    /\ Stored(cache) = {}
    /\ \E rows \in ZeroPerformanceRows, d \in DayValues :
          LET r == Extend(GivenRequest("content", d, [performance |-> rows]),
                          "contentId", "chapter-1")
          IN Answer(r, ContentHandler(r, cache, clock))
    /\ UNCHANGED trackVars

\* realtime requests over few or no rows, with any ?minutes= (followed while the cache
\* is empty, as this handler does not use the cache either)
GetRealtimeZero ==
    /\ rpc = "idle"
    /\ Stored(cache) = {}
    /\ \E rows \in ZeroRealtimeRows, m \in MinuteValues :
          LET r == Extend(GivenRequest("realtime", Undefined, [realtime |-> rows]),
                          "minutes", m)
          IN Answer(r, RealtimeHandler(r, cache, clock))
    /\ UNCHANGED trackVars

\* demographic rows of a few locations: one row per (country, city), as GROUP BY gives
DemographicRowKinds ==
    {DemographicRow(c, Str("Town"), u, Num(2 * u.n)) :
         c \in {Str("US"), Str("JP"), Str("")}, u \in {Num(1), Num(2), Num(3)}}

\* one row for each of n locations, of equal or of growing user counts
ManyLocationRows(n, tied) ==
    [i \in 1..n |->
        DemographicRow(Str("C" \o Pad2(i)), Str("Town"), Num(IF tied THEN 3 ELSE i), Num(60))]

DemographicInputs ==
    {[data |-> rows] :
        rows \in {l \in SeqsUpTo(DemographicRowKinds, MaxRows) :
                      \A i \in 1..Len(l), j \in 1..Len(l) :
                          i # j => l[i].country # l[j].country}
                 \cup {ManyLocationRows(n, tied) :
                           n \in (LocationLimit - 1)..(LocationLimit + 1), tied \in BOOLEAN}}
    \cup {NoData}

\* buildDemographics applied to an answer of the demographics query
ApplyBuildDemographics ==
    /\ rpc = "idle"
    /\ \E data \in DemographicInputs :
          /\ rd' = [endpoint |-> "buildDemographics", data |-> "given", arg |-> data]
          /\ rresp' = [status |-> 0, body |-> <<buildDemographics(data)>>]
    /\ rpc' = "done"
    /\ UNCHANGED <<cache, clock, served, queries, puts>>
    /\ UNCHANGED trackVars

\* realtime rows of two locations, two contents and two users
OrderRealtimeRows ==
    SeqsUpTo({RealtimeRow(Str("chapter_opened"), id, u, l[1], l[2], Num(999000000)) :
                  id \in {Str("chapter-1"), Str("fl-9")}, u \in {Str("u1"), Str("u2")},
                  l \in {<<Str("US"), Str("Austin")>>, <<Str("JP"), Str("Tokyo")>>}},
             MaxRows)

\* realtime requests over rows of several locations and contents
GetRealtimeOrder ==
    /\ rpc = "idle"
    /\ \E rows \in OrderRealtimeRows :
          LET r == GivenRequest("realtime", Undefined, [realtime |-> rows])
          IN Answer(r, RealtimeHandler(r, cache, clock))
    /\ UNCHANGED trackVars

\* revenue rows of the two calendar days a window of one day reaches into: one of
\* January 12th 1970 (the day of the request) and one of the evening before
WindowRowKinds ==
    {RevenueDetailRow(Str("purchase_completed"), Str("US"), Str("card"), v, Num(0), ts) :
         v \in {Num(5), Num(10)}, ts \in {Num(990000000), Num(920000000)}}

\* every row is younger than the start of the window: double5 > startTime
InWindow(rows, days, dateNow) ==
    \A i \in 1..Len(rows) : rows[i].timestamp.n > dateNow - days * 86400000

\* the rows arrive newest first: ORDER BY double5 DESC
NewestFirst(rows) ==
    \A i \in 1..Len(rows), j \in 1..Len(rows) :
        i < j => rows[i].timestamp.n >= rows[j].timestamp.n

\* revenue requests arriving at an empty cache, over the rows of their window
GetRevenueWindow ==
    /\ rpc = "idle"
    /\ Stored(cache) = {}
    /\ \E rows \in SeqsUpTo(WindowRowKinds, MaxRows), d \in {Str("1"), Str("7")} :
          LET r == GivenRequest("revenue", d, [details |-> rows])
          IN /\ NewestFirst(rows)
             /\ InWindow(rows, DaysOf(r).n, ReadNow(clock))
             /\ Answer(r, RevenueHandler(r, cache, clock))
    /\ UNCHANGED trackVars

\* time passes between requests; keys past their expirationTtl expire
Tick ==
    /\ rpc = "idle"
    /\ clock + TickSeconds <= MaxClock
    /\ clock' = clock + TickSeconds
    /\ cache' = KvExpire(cache, clock + TickSeconds)
    /\ served' = [k \in CacheKeys |->
                    IF KvExpire(cache, clock + TickSeconds)[k] = NoEntry THEN <<>> ELSE served[k]]
    /\ UNCHANGED <<rd, rpc, queries, puts, rresp>>
    /\ UNCHANGED trackVars

\* the response has been sent; the worker waits for the next read request
NextRead ==
    /\ rpc = "done"
    /\ rd' = NoRead
    /\ rpc' = "idle"
    /\ queries' = 0
    /\ puts' = 0
    /\ rresp' = NoReadResponse
    /\ UNCHANGED <<cache, clock, served>>
    /\ UNCHANGED trackVars

----------------------------------------------------------------------------
(* The specifications *)

InitRead ==
    /\ cache = EmptyCache
    /\ clock = 0
    /\ rd = NoRead
    /\ rpc = "idle"
    /\ queries = 0
    /\ puts = 0
    /\ rresp = NoReadResponse
    /\ served = [k \in CacheKeys |-> <<>>]

InitTrack ==
    /\ req = NoRequest
    /\ now = 0
    /\ pc = "idle"
    /\ idx = 0
    /\ writes = <<>>
    /\ results = <<>>
    /\ resp = NoResponse

Init == InitTrack /\ InitRead

Next == Track \/ BatchStart \/ BatchItem \/ BatchFinish \/ NextRequest

Spec == Init /\ [][Next]_vars

\* the read side on its own: requests to the two cached resources, and time
ReadNext == GetStats \/ GetRevenue \/ Tick \/ NextRead

SpecRead == Init /\ [][ReadNext]_vars

\* the stats resource under partial failure of its aggregator queries
StatsNext == GetStatsPartial \/ Tick \/ NextRead

SpecStats == Init /\ [][StatsNext]_vars

\* the three resources computed from a single dataset query
QueryNext == GetRevenueQuery \/ GetRealtime \/ GetContent \/ Tick \/ NextRead

SpecQuery == Init /\ [][QueryNext]_vars

\* the revenue resource computed from rows of few or many countries
CountryNext == GetRevenueByCountry \/ Tick \/ NextRead

SpecCountry == Init /\ [][CountryNext]_vars

\* the four resources computed from rows whose sums and counts can be zero
ZeroNext ==
    GetStatsZero \/ GetRevenueZero \/ GetContentZero \/ GetRealtimeZero \/ Tick \/ NextRead

SpecZero == Init /\ [][ZeroNext]_vars

\* buildDemographics on its own
DemographicsNext == ApplyBuildDemographics \/ NextRead

SpecDemographics == Init /\ [][DemographicsNext]_vars

\* the aggregates that sort and truncate, over rows in every order
OrderNext == GetRealtimeOrder \/ ApplyBuildDemographics \/ NextRead

SpecOrder == Init /\ [][OrderNext]_vars

\* the revenue resource computed from the rows of its window
WindowNext == GetRevenueWindow \/ Tick \/ NextRead

SpecWindow == Init /\ [][WindowNext]_vars

----------------------------------------------------------------------------
(* Vocabulary of the properties *)

\* the request is an accepted batch: a list of 1..MaxBatch items
AcceptedBatch ==
    req.kind = "batch" /\ req.jsonOK /\ req.isArray /\ req.n >= 1 /\ req.n <= MaxBatch

\* item i of the current request has been through the handler
Processed(i) ==
    \/ req.kind = "single" /\ req.jsonOK /\ pc = "done" /\ i = 1
    \/ AcceptedBatch /\ i \in 1..Len(results)

ProcessedItems == {i \in 1..req.n : Processed(i)}

\* a field that is missing or empty
MissingOrEmpty(v) == v \in {Undefined, Null, Str("")}

\* a field holding a non-empty string of at most 100 characters
GoodName(v) == v.t = "string" /\ Len(v.s) >= 1 /\ Len(v.s) <= 100

\* a valid event: an object whose event and userId are both good names
WellFormed(item) ==
    item.kind = "object" /\ GoodName(item.f["event"]) /\ GoodName(item.f["userId"])

\* the writeDataPoint calls issued for item i
WritesFor(i) == {k \in 1..Len(writes) : writes[k].item = i}

\* the name contains one of the words
ContainsAny(name, words) == \E w \in words : Includes(name, w)

\* the route the classification rules give a name: revenue words first, then content words
RouteOfName(name) ==
    IF ContainsAny(name, {"purchase_completed", "coins_purchased", "subscription_started",
                          "subscription_cancelled", "payment_failed", "refund_processed",
                          "revenue", "payment"})
    THEN "REVENUE_TRACKING"
    ELSE IF ContainsAny(name, {"chapter_opened", "chapter_completed", "page_viewed",
                               "reading_session", "flick_started", "flick_completed",
                               "watch_progress", "content_liked", "content_shared",
                               "content_saved", "chapter", "flick", "episode"})
    THEN "STUDIO_ANALYTICS"
    ELSE "USER_BEHAVIOR"

----------------------------------------------------------------------------
(* C1 *)

\* C1: in an accepted batch every item is processed whatever happened to the items
\* before it: after k passes there are exactly k result records, record i belongs to
\* item i (it echoes item i's name on success), every valid item has had its write
\* issued when the worker has its bindings, and the response is the 200 batch
\* response with one record per item in submission order, never an error.
C1_BatchItemsIndependent ==
    AcceptedBatch =>
        /\ Len(results) = idx
        /\ \A i \in 1..Len(results) :
            /\ results[i].success => results[i].tracked = ItemAt(req, i).f["event"]
            /\ (WellFormed(ItemAt(req, i)) /\ req.envOK) => Cardinality(WritesFor(i)) = 1
            /\ (WellFormed(ItemAt(req, i)) /\ req.envOK /\ i \notin req.failAt)
                   => results[i].success
        /\ pc = "done" =>
            /\ resp.status = 200 /\ resp.success
            /\ resp.results = results
            /\ Len(resp.results) = req.n

\* a finished batch in which an invalid item and a failed write both precede a valid
\* item that was written and reported as a success
C1_Witness ==
    /\ AcceptedBatch /\ pc = "done" /\ req.n = 3
    /\ ~WellFormed(ItemAt(req, 1)) /\ ~results[1].success
    /\ WellFormed(ItemAt(req, 2)) /\ 2 \in req.failAt /\ ~results[2].success
    /\ WellFormed(ItemAt(req, 3)) /\ results[3].success
    /\ \E k \in WritesFor(3) : writes[k].ok

----------------------------------------------------------------------------
(* C2 *)

\* the items of the submitted list that failed validation or whose write failed
FailedItems ==
    {i \in 1..req.n :
        \/ ~WellFormed(ItemAt(req, i))
        \/ \E k \in WritesFor(i) : ~writes[k].ok}

\* C2: the response of an accepted batch has total = number of submitted items,
\* exactly total result records, successful + failed = total, and failed = the number
\* of items that failed validation or whose write failed.
C2_BatchCounts ==
    (AcceptedBatch /\ pc = "done") =>
        /\ resp.total = req.n
        /\ Len(resp.results) = resp.total
        /\ resp.successful + resp.failed = resp.total
        /\ resp.failed = Cardinality(FailedItems)
        /\ resp.successful = Cardinality({i \in 1..req.n : resp.results[i].success})

\* 100 items of which exactly item 50 is invalid: 99 successes, 1 failure, total 100
C2_Witness ==
    /\ AcceptedBatch /\ pc = "done" /\ req.n = 100
    /\ FailedItems = {50} /\ ~WellFormed(ItemAt(req, 50))
    /\ resp.successful = 99 /\ resp.failed = 1 /\ resp.total = 100

----------------------------------------------------------------------------
(* C3 *)

\* a submitted value (not null) whose event or userId is missing or empty
MissingRequired(item) ==
    /\ item.kind # "null"
    /\ MissingOrEmpty(Get(item, "event")) \/ MissingOrEmpty(Get(item, "userId"))

MissingMessages ==
    {Str("Missing required field: event"), Str("Missing required field: userId")}

\* C3: for an event whose event or userId is missing or empty the validator returns
\* an error, no write is issued for it, the single route answers 400 with the
\* validation message and the batch route records a per-item failure.
C3_MissingFieldNeverWritten ==
    \A i \in ProcessedItems :
        MissingRequired(ItemAt(req, i)) =>
            /\ validateTrackingEvent(ItemAt(req, i)) \in MissingMessages
            /\ WritesFor(i) = {}
            /\ req.kind = "single" =>
                /\ resp.status = 400
                /\ resp.error = "Validation failed"
                /\ resp.details = validateTrackingEvent(ItemAt(req, i))
                /\ ~resp.success
            /\ req.kind = "batch" =>
                /\ ~results[i].success
                /\ results[i].error = validateTrackingEvent(ItemAt(req, i))

\* a batch in which an event without userId got its failure record and no write,
\* while the valid event after it was written
C3_Witness ==
    /\ AcceptedBatch /\ pc = "done" /\ req.n = 2 /\ req.envOK
    /\ ItemAt(req, 1).kind = "object"
    /\ GoodName(ItemAt(req, 1).f["event"]) /\ ItemAt(req, 1).f["userId"] = Undefined
    /\ ~results[1].success /\ WritesFor(1) = {}
    /\ WritesFor(2) # {}

----------------------------------------------------------------------------
(* C4 *)

\* C4: POST /track acknowledges success only if exactly one write was issued for the
\* event and it succeeded; a failed write is answered 500 'Failed to track event'
\* with the cause, never with success.
C4_SuccessMeansOneWrite ==
    (req.kind = "single" /\ pc = "done") =>
        /\ resp.success => (Len(writes) = 1 /\ writes[1].ok)
        /\ (\E k \in 1..Len(writes) : ~writes[k].ok) =>
            /\ ~resp.success
            /\ resp.status = 500
            /\ resp.error = "Failed to track event"
            /\ resp.details = Details(req.cause, "writeDataPoint failed")

----------------------------------------------------------------------------
(* C5 *)

\* C5: every valid event that reaches the dispatch causes exactly one write, to the
\* dataset its name alone selects, and none to the other two; a name matching no
\* revenue or content keyword goes to the user-behavior dataset.
C5_ExactlyOneDataset ==
    \A i \in ProcessedItems :
        (WellFormed(ItemAt(req, i)) /\ req.envOK) =>
            /\ Cardinality(WritesFor(i)) = 1
            /\ \A k \in WritesFor(i) :
                /\ writes[k].dataset
                       \in {"REVENUE_TRACKING", "STUDIO_ANALYTICS", "USER_BEHAVIOR"}
                /\ writes[k].dataset = RouteOfName(ItemAt(req, i).f["event"].s)

\* an event whose name matches no keyword was written once, to user-behavior
C5_Witness ==
    /\ req.kind = "single" /\ pc = "done" /\ resp.success
    /\ ItemAt(req, 1).f["event"] = Str("app_opened_v2")
    /\ Len(writes) = 1 /\ writes[1].dataset = "USER_BEHAVIOR"

----------------------------------------------------------------------------
(* C6 *)

RevenueKeywords ==
    {"purchase_completed", "coins_purchased", "subscription_started",
     "subscription_cancelled", "payment_failed", "refund_processed", "revenue", "payment"}
ContentKeywords ==
    {"chapter_opened", "chapter_completed", "page_viewed", "reading_session",
     "flick_started", "flick_completed", "watch_progress", "content_liked",
     "content_shared", "content_saved", "chapter", "flick", "episode"}

\* C6: revenue is checked before content: a name containing both a revenue keyword
\* and a content keyword is written to the revenue dataset, never to the content
\* dataset; purchase_completed is revenue, chapter_opened content, login user-behavior.
C6_RevenueBeforeContent ==
    \A k \in 1..Len(writes) :
        LET name == ItemAt(req, writes[k].item).f["event"].s
        IN /\ (ContainsAny(name, RevenueKeywords) /\ ContainsAny(name, ContentKeywords))
                  => writes[k].dataset = "REVENUE_TRACKING"
           /\ name = "purchase_completed" => writes[k].dataset = "REVENUE_TRACKING"
           /\ name = "chapter_opened" => writes[k].dataset = "STUDIO_ANALYTICS"
           /\ name = "login" => writes[k].dataset = "USER_BEHAVIOR"

\* payment_for_chapter, which names both a revenue and a content keyword, was
\* written to the revenue dataset
C6_Witness ==
    /\ req.kind = "single" /\ pc = "done"
    /\ ItemAt(req, 1).f["event"] = Str("payment_for_chapter")
    /\ Len(writes) = 1 /\ writes[1].dataset = "REVENUE_TRACKING"

----------------------------------------------------------------------------
(* C7 *)

\* C7: classification is made on the lower-cased name: whenever an event is written,
\* every event name that differs from its name only in letter case is routed to the
\* same dataset.
C7_CaseInsensitiveRouting ==
    \A k \in 1..Len(writes) :
        LET name == ItemAt(req, writes[k].item).f["event"].s
        IN \A other \in CasedNames :
               ToLowerCase(other) = ToLowerCase(name) => DatasetOf(other) = writes[k].dataset

----------------------------------------------------------------------------
(* C8 *)

\* the layout of each dataset's records: field counts and the positions of the
\* fields every record carries
Layout(dataset) ==
    CASE dataset = "REVENUE_TRACKING" ->
            [blobs |-> 8, doubles |-> 7, indexes |-> 1, userId |-> 3, timestamp |-> 5]
      [] dataset = "STUDIO_ANALYTICS" ->
            [blobs |-> 8, doubles |-> 7, indexes |-> 1, userId |-> 3, timestamp |-> 7]
      [] OTHER ->
            [blobs |-> 8, doubles |-> 7, indexes |-> 1, userId |-> 2, timestamp |-> 7]

\* the position holds a value: not undefined, null or NaN
Filled(v) == v.t \in {"string", "number"}

\* C8: within a dataset every record written has the same number of string fields,
\* numeric fields and index keys, every position is filled, and the event name,
\* user id, country, city and timestamp sit at the same positions, whatever optional
\* fields the event carries, omits or sets to zero or empty.
C8_SchemaStable ==
    \A k \in 1..Len(writes) :
        LET w    == writes[k]
            item == ItemAt(req, w.item)
            lay  == Layout(w.dataset)
        IN /\ Len(w.point.blobs) = lay.blobs
           /\ Len(w.point.doubles) = lay.doubles
           /\ Len(w.point.indexes) = lay.indexes
           /\ \A j \in 1..Len(w.point.blobs) : Filled(w.point.blobs[j])
           /\ \A j \in 1..Len(w.point.doubles) : Filled(w.point.doubles[j])
           /\ \A j \in 1..Len(w.point.indexes) : Filled(w.point.indexes[j])
           /\ w.point.blobs[1] = item.f["event"]
           /\ w.point.blobs[lay.userId] = item.f["userId"]
           /\ w.point.blobs[4] = Or(CfGet(req.cf, "country"), Str("XX"))
           /\ w.point.blobs[5] = Or(CfGet(req.cf, "city"), Str("Unknown"))
           /\ w.point.doubles[lay.timestamp] = Or(item.f["timestamp"], Num(now))

\* a user-behavior record written for an event that carries no optional field
C8_Witness ==
    /\ req.kind = "single" /\ pc = "done" /\ Len(writes) = 1
    /\ writes[1].dataset = "USER_BEHAVIOR"
    /\ \A f \in StringOptionals \cup NumberOptionals : ItemAt(req, 1).f[f] = Undefined
    /\ Len(writes[1].point.doubles) = 7

----------------------------------------------------------------------------
(* C9 *)

\* C9: every record written has one non-empty studio index key, equal to the event's
\* studioId when that is present and non-empty and to "unknown" otherwise; a revenue
\* record carries the same value in its second string field.
C9_StudioIndexKey ==
    \A k \in 1..Len(writes) :
        LET w      == writes[k]
            given  == ItemAt(req, w.item).f["studioId"]
            studio == IF given.t = "string" /\ given.s # "" THEN given ELSE Str("unknown")
        IN /\ Len(w.point.indexes) >= 1
           /\ w.point.indexes[1] = studio
           /\ w.point.indexes[1] # Str("")
           /\ w.dataset = "REVENUE_TRACKING" => w.point.blobs[2] = studio

\* a user-behavior record written for an event without studioId, keyed "unknown"
C9_Witness ==
    /\ req.kind = "single" /\ pc = "done" /\ Len(writes) = 1
    /\ writes[1].dataset = "USER_BEHAVIOR"
    /\ ItemAt(req, 1).f["studioId"] = Undefined
    /\ writes[1].point.indexes = <<Str("unknown")>>

----------------------------------------------------------------------------
(* C10 *)

\* the read request that is answered in this step finds an unexpired value under its key
KeyHeld == rpc = "idle" /\ rpc' = "done" /\ KvGet(cache, KeyOf(rd'), clock) # <<>>

\* C10: a stats or revenue request whose cache key holds an unexpired value issues no
\* dataset query and performs no cache store; the cache is left as it was.
C10_HitIssuesNoQueryNoStore ==
    [][KeyHeld => (queries' = 0 /\ puts' = 0 /\ cache' = cache)]_vars

\* a request with bindings answered 200 from a value stored at an earlier tick, with
\* no query and no store
C10_Witness ==
    /\ rpc = "done" /\ rd.env = "bound" /\ rd.kv = "ok" /\ rd.apiOk
    /\ rresp.status = 200 /\ queries = 0 /\ puts = 0
    /\ KvGet(cache, KeyOf(rd), clock) # <<>>
    /\ cache[KeyOf(rd)].expires < clock + CacheTtl

----------------------------------------------------------------------------
(* C11 *)

\* the finished read request was answered from the cache
AnsweredFromCache ==
    /\ rpc = "done" /\ rresp.status = 200 /\ rd.env # "undefined"
    /\ queries = 0 /\ puts = 0

\* C11: a stats or revenue request answered from the cache gets exactly the payload
\* that the request which computed and stored the value returned to its own caller.
C11_HitPayloadSameAsMiss ==
    AnsweredFromCache => rresp.body = served[KeyOf(rd)]

\* the same, for the stats resource alone
C11_StatsHitPayloadSameAsMiss ==
    (AnsweredFromCache /\ rd.endpoint = "stats") => rresp.body = served[KeyOf(rd)]

----------------------------------------------------------------------------
(* C12 *)

\* the finished read request computed a fresh value and its CACHE.put was rejected
StoreFailed == rpc = "done" /\ PutRejects(rd) /\ puts = 1

\* C12: when storing the freshly computed result fails, the stats or revenue request
\* still answers 200 with the freshly computed value, never an error.
C12_StoreFailureStillAnswers ==
    StoreFailed =>
        /\ rresp.status = 200
        /\ rresp.body =
              StatsHandler([rd EXCEPT !.kv = "ok"], EmptyCache, clock).body
              \/ rresp.body =
                    RevenueHandler([rd EXCEPT !.kv = "ok"], EmptyCache, clock).body

----------------------------------------------------------------------------
(* C13 *)

\* the finished stats request found no cached value and ran its three queries
StatsComputed == rpc = "done" /\ rd.endpoint = "stats" /\ queries = 3

\* the payload the same request gets when none of its queries fails
Unfailed == StatsHandler([rd EXCEPT !.failing = {}], EmptyCache, clock).body[1]

\* C13: when one or more of the three aggregator queries of GET /api/stats fail, the
\* request still answers 200; every failed branch contributes its zero-valued default
\* and every field derived from a branch that answered has the value it has when no
\* branch fails.
C13_PartialFailureIsolated ==
    StatsComputed =>
        /\ rresp.status = 200
        /\ LET b == rresp.body[1]
               o == b.overview
               u == Unfailed
           IN /\ b.studioId = u.studioId /\ b.period = u.period /\ b.generated = u.generated
              /\ b.revenue = u.revenue
              /\ IF "content" \in rd.failing
                 THEN /\ b.content = [byType |-> <<>>, topContent |-> <<>>]
                      /\ o.totalViews = Num(0) /\ o.avgSessionTime = Num(0)
                      /\ o.completionRate = Num(0)
                 ELSE /\ b.content = u.content
                      /\ o.totalViews = u.overview.totalViews
                      /\ o.avgSessionTime = u.overview.avgSessionTime
                      /\ o.completionRate = u.overview.completionRate
              /\ IF "revenue" \in rd.failing
                 THEN /\ o.totalRevenue = Num(0) /\ o.totalCoins = Num(0)
                      /\ o.transactions = Num(0)
                 ELSE /\ o.totalRevenue = u.overview.totalRevenue
                      /\ o.totalCoins = u.overview.totalCoins
                      /\ o.transactions = u.overview.transactions
              /\ IF "demographics" \in rd.failing
                 THEN /\ b.demographics = [byLocation |-> <<>>]
                      /\ o.uniqueUsers = Num(0)
                 ELSE /\ b.demographics = u.demographics
                      /\ o.uniqueUsers = u.overview.uniqueUsers

\* a stats request answered 200 while its demographics query alone failed, the content
\* and revenue figures being the non-zero ones of the datasets
C13_Witness ==
    /\ StatsComputed /\ rd.failing = {"demographics"} /\ rresp.status = 200
    /\ rresp.body[1].demographics.byLocation = <<>>
    /\ rresp.body[1].overview.totalViews.n > 0
    /\ rresp.body[1].overview.totalRevenue.n > 0

----------------------------------------------------------------------------
(* C14 *)

\* the dataset query of the finished request failed: no credentials, or no answer
QueryFailed == MissingCredentials(rd.env) \/ ~rd.apiOk

\* the finished request computed its answer (a revenue request was not served from cache)
Computed ==
    /\ rpc = "done"
    /\ rd.endpoint \in {"realtime", "content"}
       \/ (rd.endpoint = "revenue" /\ (puts = 1 \/ rd.env = "undefined"))

\* C14: a failed dataset query in GET /api/revenue, GET /api/realtime or
\* GET /api/content/:studioId/:contentId yields a 200 response with a zero-valued
\* summary and empty lists, never a 500.
C14_ZeroDefaultsEverywhere ==
    (Computed /\ QueryFailed) =>
        /\ rresp.status = 200
        /\ LET b == rresp.body[1]
           IN CASE rd.endpoint = "revenue" ->
                     /\ b.summary = [total |-> Num(0), coins |-> Num(0),
                                     transactions |-> Num(0), avgTransaction |-> Num(0)]
                     /\ b.byCountry = <<>> /\ b.byMethod = <<>> /\ b.timeline = <<>>
                [] rd.endpoint = "realtime" ->
                     /\ b.activeUsers = Num(0) /\ b.totalEvents = Num(0)
                     /\ b.eventsPerMinute = Num(0)
                     /\ b.locations = <<>> /\ b.activeContent = <<>>
                [] rd.endpoint = "content" ->
                     /\ b.summary = [totalViews |-> Num(0), uniqueUsers |-> Num(0),
                                     completions |-> Num(0), completionRate |-> Num(0),
                                     avgViewTime |-> Num(0), revenue |-> Num(0)]
                     /\ b.timeline = <<>>

\* a content request answered 200 with zero totals while the SQL API did not answer,
\* although the dataset holds rows for it
C14_Witness ==
    /\ Computed /\ rd.endpoint = "content" /\ rd.env = "bound" /\ ~rd.apiOk
    /\ queries = 1 /\ rresp.status = 200
    /\ rresp.body[1].summary.totalViews = Num(0)
    /\ PerformanceRowsOf(rd.data) # <<>>

----------------------------------------------------------------------------
(* C15 *)

\* the batch request carries an events value that is not a list, is empty or is too long
BadBatch ==
    /\ req.kind = "batch" /\ req.jsonOK
    /\ ~req.isArray \/ req.n = 0 \/ req.n > 100

\* C15: a batch whose events value is not a list, is an empty list or has more than
\* 100 items is rejected with status 400 and no dataset write is issued for any of its
\* items; a batch of exactly 100 items is accepted.
C15_BatchBounds ==
    /\ BadBatch => (pc = "done" /\ resp.status = 400 /\ writes = <<>> /\ results = <<>>)
    /\ (req.kind = "batch" /\ req.jsonOK /\ req.isArray /\ req.n = 100) =>
          /\ pc \in {"batch", "done"}
          /\ pc = "done" => (resp.status = 200 /\ resp.total = 100)

\* a batch of 101 well-formed events rejected with 400 before any write
C15_Witness ==
    /\ BadBatch /\ req.isArray /\ req.n = 101 /\ WellFormed(req.base)
    /\ pc = "done" /\ resp.status = 400 /\ writes = <<>>

----------------------------------------------------------------------------
(* C16 *)

\* a field that is not a string, or a string of more than 100 characters
NotAName(v) == v.t # "string" \/ Len(v.s) > 100

\* the message of the first failing rule, in the stated order; null when none fails
FirstFailingRule(item) ==
    LET e == Get(item, "event")
        u == Get(item, "userId")
    IN IF MissingOrEmpty(e) THEN Str("Missing required field: event")
       ELSE IF MissingOrEmpty(u) THEN Str("Missing required field: userId")
       ELSE IF NotAName(e) THEN Str("Invalid event name")
       ELSE IF NotAName(u) THEN Str("Invalid userId")
       ELSE Null

\* C16: validate returns the message of the first failing rule in the order
\* (1) event missing or empty, (2) userId missing or empty, (3) event not a string or
\* longer than 100 characters, (4) userId not a string or longer than 100 characters,
\* and null exactly when no rule fails.
C16_FirstFailingRule ==
    \A i \in ProcessedItems :
        ItemAt(req, i).kind # "null" =>
            validateTrackingEvent(ItemAt(req, i)) = FirstFailingRule(ItemAt(req, i))

\* the same, over events whose event and userId are strings or absent
C16_FirstFailingRuleOnStrings ==
    \A i \in ProcessedItems :
        LET item == ItemAt(req, i)
        IN (/\ item.kind # "null"
            /\ Get(item, "event").t \in {"string", "undefined", "null"}
            /\ Get(item, "userId").t \in {"string", "undefined", "null"}) =>
               validateTrackingEvent(item) = FirstFailingRule(item)

----------------------------------------------------------------------------
(* C17 *)

\* C17: validate never throws, whatever JSON value is passed as the event (an object,
\* null, an array, a number): it always returns an error string or null.
C17_ValidateNeverThrows ==
    \A i \in ProcessedItems :
        /\ ~ReadThrows(ItemAt(req, i))
        /\ validateTrackingEvent(ItemAt(req, i)).t \in {"string", "null"}
        /\ Attempt(req, i, now).end = "threw" => Attempt(req, i, now).ws # <<>>

----------------------------------------------------------------------------
(* C18 *)

\* C18: a user-behavior record has the string fields [event name, userId, sessionId,
\* country, city, referrer, source, medium] and exactly four numeric fields [value,
\* duration, score, timestamp], the timestamp being the fourth; value is the event's
\* value when the event carries one and 1 only when it carries none.
C18_UserBehaviorLayout ==
    \A k \in 1..Len(writes) :
        LET w    == writes[k]
            f    == ItemAt(req, w.item).f
            data == enrichTrackingData(ItemAt(req, w.item), req.cf, req.headers, now)
        IN w.dataset = "USER_BEHAVIOR" =>
             /\ Len(w.point.blobs) = 8
             /\ w.point.blobs[1] = f["event"] /\ w.point.blobs[2] = f["userId"]
             /\ w.point.blobs[3] = (IF f["sessionId"] = Undefined THEN Str("")
                                    ELSE f["sessionId"])
             /\ w.point.blobs[4] = data["country"] /\ w.point.blobs[5] = data["city"]
             /\ Len(w.point.doubles) = 4
             /\ w.point.doubles[1] = (IF f["value"] = Undefined THEN Num(1) ELSE f["value"])
             /\ w.point.doubles[4] = data["timestamp"]

\* the part of it that concerns the value field alone
C18_ValueDefaultOnlyWhenAbsent ==
    \A k \in 1..Len(writes) :
        LET w == writes[k]
            f == ItemAt(req, w.item).f
        IN w.dataset = "USER_BEHAVIOR" =>
             w.point.doubles[1] = (IF f["value"] = Undefined THEN Num(1) ELSE f["value"])

----------------------------------------------------------------------------
(* C19 *)

\* C19: for an event routed to the user-behavior dataset whose studioId is absent or
\* empty, the single index key of the written record is "global".
C19_GlobalIndexDefault ==
    \A k \in 1..Len(writes) :
        LET w == writes[k]
        IN (/\ w.dataset = "USER_BEHAVIOR"
            /\ ItemAt(req, w.item).f["studioId"] \in {Undefined, Str("")}) =>
               w.point.indexes = <<Str("global")>>

----------------------------------------------------------------------------
(* C20 *)

\* the timestamp the claim prescribes: the event's own when it is a positive number,
\* the ingestion time otherwise
PrescribedTimestamp(item, dateNow) ==
    IF item.f["timestamp"].t = "number" /\ item.f["timestamp"].n > 0
    THEN item.f["timestamp"] ELSE Num(dateNow)

\* C20: the enriched timestamp is event.timestamp only when that is a positive number and
\* the ingestion time otherwise, so the timestamp written to the dataset and the one
\* echoed in the acknowledgment are always positive numbers.
C20_TimestampPositive ==
    /\ \A k \in 1..Len(writes) :
           LET w  == writes[k]
               ts == w.point.doubles[Layout(w.dataset).timestamp]
           IN /\ ts = PrescribedTimestamp(ItemAt(req, w.item), now)
              /\ ts.t = "number" /\ ts.n > 0
    /\ (req.kind = "single" /\ pc = "done" /\ resp.status = 200) =>
           /\ resp.timestamp = PrescribedTimestamp(ItemAt(req, 1), now)
           /\ resp.timestamp.t = "number" /\ resp.timestamp.n > 0

----------------------------------------------------------------------------
(* C21 *)

\* a revenue response computed from the given rows
RevenueComputed ==
    /\ rpc = "done" /\ rd.endpoint = "revenue" /\ rd.data = "given"
    /\ rresp.status = 200 /\ queries = 1

\* the rows of country c
RowsOfCountry(rows, c) == SelectSeq(rows, LAMBDA row : row.country = c)

\* the countries present in the rows
CountriesIn(rows) == {rows[i].country : i \in 1..Len(rows)} \ {Str("")}

\* entry e reports country c as the claim prescribes: summed revenue, row count, their ratio
ReportsCountry(e, rows, c) ==
    LET of == RowsOfCountry(rows, c)
    IN /\ e.country = c
       /\ e.revenue = Num(SumField(of, "revenue"))
       /\ e.transactions = Num(Len(of))
       /\ e.avgTransaction = Quotient(SumField(of, "revenue"), Len(of))

\* the list is in descending order of the field
Descending(list, field) ==
    \A i \in 1..Len(list), j \in 1..Len(list) : i < j => list[i][field].n >= list[j][field].n

\* C21 as stated: the revenue response has one byCountry entry per distinct country present
\* in the rows, with revenue the sum, transactions the count and avgTransaction their
\* ratio, sorted by descending revenue.
C21_EntryPerCountry ==
    RevenueComputed =>
        LET rows == rd.rows["details"]
            by   == rresp.body[1].byCountry
        IN /\ Len(by) = Cardinality(CountriesIn(rows))
           /\ \A c \in CountriesIn(rows) : \E k \in 1..Len(by) : ReportsCountry(by[k], rows, c)
           /\ Descending(by, "revenue")

\* C21 amended: byCountry holds one such entry for each of the (at most) 20 countries of
\* highest revenue among those present in the rows, sorted by descending revenue.
C21_EntryPerTopCountry ==
    RevenueComputed =>
        LET rows     == rd.rows["details"]
            by       == rresp.body[1].byCountry
            listed   == {by[k].country : k \in 1..Len(by)}
            revenue(c) == SumField(RowsOfCountry(rows, c), "revenue")
        IN /\ Len(by) = IF Cardinality(CountriesIn(rows)) < CountryLimit
                         THEN Cardinality(CountriesIn(rows)) ELSE CountryLimit
           /\ Cardinality(listed) = Len(by)
           /\ listed \subseteq CountriesIn(rows)
           /\ \A k \in 1..Len(by) : ReportsCountry(by[k], rows, by[k].country)
           /\ \A c \in CountriesIn(rows) \ listed, d \in listed : revenue(c) <= revenue(d)
           /\ Descending(by, "revenue")

\* rows US 10, US 20, JP 5 answered with US 30/2/15 then JP 5/1/5
C21_Witness ==
    /\ RevenueComputed
    /\ [i \in 1..Len(rd.rows["details"]) |->
           <<rd.rows["details"][i].country, rd.rows["details"][i].revenue>>]
         = <<<<Str("US"), Num(10)>>, <<Str("US"), Num(20)>>, <<Str("JP"), Num(5)>>>>
    /\ [k \in 1..Len(rresp.body[1].byCountry) |->
           LET e == rresp.body[1].byCountry[k]
           IN <<e.country, e.revenue, e.transactions, e.avgTransaction>>]
         = <<<<Str("US"), Num(30), Num(2), Num(15)>>, <<Str("JP"), Num(5), Num(1), Num(5)>>>>

----------------------------------------------------------------------------
(* C22 *)

\* a number of the response that is neither NaN nor Infinity (both are null in JSON)
Finite(v) == v.t = "number" /\ v # Infinity

\* v is a finite number, and 0 when its denominator is 0
Guarded(v, denominator) == Finite(v) /\ (denominator = 0 => v = Num(0))

\* C22: no average, rate or percentage of a read response is the result of a division
\* by zero: each is a finite number, and 0 whenever its denominator is 0, for every
\* row set and every value of the days and minutes parameters.
C22_NoDivisionByZero ==
    (rpc = "done" /\ rd.data = "given" /\ rresp.status = 200) =>
        LET body == rresp.body[1]
        IN CASE rd.endpoint = "stats" ->
                  /\ Guarded(body.overview.avgSessionTime, Len(rd.rows["content"]))
                  /\ Guarded(body.overview.completionRate, Len(rd.rows["content"]))
             [] rd.endpoint = "revenue" ->
                  /\ Guarded(body.summary.avgTransaction, Len(rd.rows["details"]))
                  /\ \A k \in 1..Len(body.byCountry) :
                        Guarded(body.byCountry[k].avgTransaction,
                                body.byCountry[k].transactions.n)
                  /\ \A k \in 1..Len(body.byMethod) :
                        Guarded(body.byMethod[k].percentage,
                                SumField(rd.rows["details"], "revenue"))
             [] rd.endpoint = "content" ->
                  /\ Guarded(body.summary.completionRate, Len(rd.rows["performance"]))
                  /\ Guarded(body.summary.avgViewTime, Len(rd.rows["performance"]))
                  /\ \A k \in 1..Len(body.timeline) :
                        Guarded(body.timeline[k].completionRate, body.timeline[k].views.n)
             [] rd.endpoint = "realtime" ->
                  Finite(body.eventsPerMinute)
             [] OTHER -> TRUE

\* a revenue answer over no rows at all, and one over rows that sum to nothing
C22_Witness ==
    /\ rpc = "done" /\ rd.data = "given" /\ rresp.status = 200
    /\ rd.endpoint = "revenue" /\ rd.days = Str("0")
    /\ Len(rd.rows["details"]) = 2
    /\ SumField(rd.rows["details"], "revenue") = 0
    /\ Len(rresp.body[1].byMethod) = 1
    /\ rresp.body[1].byMethod[1].percentage = Num(0)

----------------------------------------------------------------------------
(* C23 *)

\* buildDemographics has been applied
DemographicsBuilt == rpc = "done" /\ rd.endpoint = "buildDemographics"

\* the rows of the argument that name a country
LocatedRows(arg) ==
    IF DOMAIN arg = {} THEN <<>>
    ELSE SelectSeq(arg.data, LAMBDA row : row.country # Str(""))

----------------------------------------------------------------------------
(* C24 *)

\* the rows in another order: every order of a short list, the reverse of a long one
Rearranged(rows) ==
    IF Len(rows) <= MaxRows + 1
    THEN {[i \in 1..Len(rows) |-> rows[f[i]]] :
             f \in {g \in [1..Len(rows) -> 1..Len(rows)] :
                       \A i \in 1..Len(rows), j \in 1..Len(rows) : i # j => g[i] # g[j]}}
    ELSE {[i \in 1..Len(rows) |-> rows[Len(rows) + 1 - i]]}

\* C24: a read-side aggregate is the same for every permutation of the same input rows,
\* also when groups tie on the sort key at or around a top-N cut-off (here: the realtime
\* locations and active content, and the demographics locations).
C24_PermutationInvariant ==
    /\ (rpc = "done" /\ rd.endpoint = "realtime" /\ rd.data = "given") =>
          \A rows \in Rearranged(rd.rows["realtime"]) :
              LET other == RealtimeJson(RealtimeStats(rd.studioId, ReadNow(clock),
                                                      [data |-> rows]))
              IN /\ other.locations = rresp.body[1].locations
                 /\ other.activeContent = rresp.body[1].activeContent
    /\ (rpc = "done" /\ rd.endpoint = "buildDemographics" /\ DOMAIN rd.arg # {}) =>
          \A rows \in Rearranged(rd.arg.data) :
              buildDemographics([data |-> rows]) = rresp.body[1]

----------------------------------------------------------------------------
(* C25 *)

\* the window the claim prescribes: the minutes the caller supplies, 5 when none
PrescribedWindow(minutes) == IF minutes = Undefined THEN 5 ELSE parseInt(minutes.s).n

\* C25: in the realtime response activeUsers is the number of distinct user ids of the
\* rows, totalEvents the number of rows, and eventsPerMinute is totalEvents divided by
\* the window length in minutes, the window being the caller-supplied minutes value and
\* 5 when none is supplied.
C25_RealtimeCounts ==
    (/\ rpc = "done" /\ rd.endpoint = "realtime" /\ rd.data = "given"
     /\ "minutes" \in DOMAIN rd /\ rd.minutes \in {Undefined, Str("10")}) =>
        LET rows == rd.rows["realtime"]
            body == rresp.body[1]
        IN /\ body.activeUsers =
                  Num(Cardinality({rows[i].user_id : i \in 1..Len(rows)} \ {Str("")}))
           /\ body.totalEvents = Num(Len(rows))
           /\ body.eventsPerMinute = Quotient(Len(rows), PrescribedWindow(rd.minutes))

----------------------------------------------------------------------------
(* C26 *)

\* C26: in the per-content response each timeline day has views = the number of that
\* day's rows, users = their distinct users, completions = those of them whose event
\* type is chapter_completed or flick_completed, completionRate = completions/views
\* and avgTime = the average time spent over that day's rows.
C26_TimelineDay ==
    (rpc = "done" /\ rd.endpoint = "content" /\ rd.data = "given") =>
        LET rows == rd.rows["performance"]
            days == rresp.body[1].timeline
        IN /\ {days[k].date.s : k \in 1..Len(days)}
                 = {DateOfRow(rows[i], ReadNow(clock)) : i \in 1..Len(rows)}
           /\ \A k \in 1..Len(days) :
                 LET on   == SelectSeq(rows, LAMBDA row :
                                 DateOfRow(row, ReadNow(clock)) = days[k].date.s)
                     done == SelectSeq(on, LAMBDA row :
                                 row.event_type \in {Str("chapter_completed"),
                                                     Str("flick_completed")})
                 IN /\ days[k].views = Num(Len(on))
                    /\ days[k].users = Num(Cardinality({on[i].user_id : i \in 1..Len(on)}))
                    /\ days[k].completions = Num(Len(done))
                    /\ days[k].completionRate = Quotient(Len(done), Len(on))
                    /\ days[k].avgTime = Quotient(SumField(on, "duration"), Len(on))

----------------------------------------------------------------------------
(* C27 *)

\* the quantity of an (enriched) event that a column name of the queries denotes
Quantity(name, data) ==
    CASE name = "event_type" -> data["event"]
      [] name = "content_id" ->
            Or(data["contentId"], Or(data["chapterId"], Or(data["flickId"], Str(""))))
      [] name = "content_type" -> Or(data["contentType"], Str(""))
      [] name \in {"user_id", "unique_users"} -> data["userId"]
      [] name = "country" -> data["country"]
      [] name = "city" -> data["city"]
      [] name = "payment_method" -> Or(data["paymentMethod"], Str(""))
      [] name \in {"revenue", "total_revenue", "avg_transaction"} -> Or(data["amount"], Num(0))
      [] name \in {"coins", "total_coins"} -> Or(data["coins"], Num(0))
      [] name \in {"duration", "total_time"} ->
            Or(data["readingTime"], Or(data["bufferingTime"], Num(0)))
      [] name = "avg_completion" -> Or(data["completionRate"], Num(0))
      [] name = "timestamp" -> data["timestamp"]

\* C27: every column a query selects by position holds, in the records the matching
\* shaper writes, the quantity the query names it as; in particular the revenue column
\* of the per-content query is read where the content shaper stores revenue.
C27_ColumnsAgree ==
    \A k \in 1..Len(writes) : \A q \in QueryColumns : \A c \in q.columns :
        LET w    == writes[k]
            data == enrichTrackingData(ItemAt(req, w.item), req.cf, req.headers, now)
        IN q.from = w.dataset => ColumnOf(w.point, c) = Quantity(c.name, data)

\* the same, leaving out the revenue column of the per-content query
C27_ColumnsAgreeButContentRevenue ==
    \A k \in 1..Len(writes) : \A q \in QueryColumns : \A c \in q.columns :
        LET w    == writes[k]
            data == enrichTrackingData(ItemAt(req, w.item), req.cf, req.headers, now)
        IN (q.from = w.dataset /\ ~(q = queryContentPerformanceColumns /\ c.name = "revenue"))
              => ColumnOf(w.point, c) = Quantity(c.name, data)

----------------------------------------------------------------------------
(* C28 *)

\* C28: in the revenue response the summary and the timeline account for the same rows:
\* summary.transactions is the sum of the timeline's transactions and summary.total the
\* sum of the timeline's revenue, for every row set within the window and every days.
C28_SummaryMatchesTimeline ==
    RevenueComputed =>
        LET body == rresp.body[1]
        IN /\ body.summary.transactions.n = SumField(body.timeline, "transactions")
           /\ body.summary.total.n = SumField(body.timeline, "revenue")

----------------------------------------------------------------------------
(* C29 *)

\* values a payload may carry in the fields named like the request's metadata
PayloadVariants ==
    {[k \in EventFields |-> IF k \in GeoPayloadFields THEN v ELSE Undefined] :
         v \in {Undefined, Str(""), Str("spoofed"), Num(99)}}

\* the event with those fields replaced
Altered(item, g) ==
    IF item.kind # "object" THEN item
    ELSE [item EXCEPT !.f = [k \in EventFields |->
                                IF k \in GeoPayloadFields THEN g[k] ELSE item.f[k]]]

\* the request whose events differ from r's in those fields only
TwinRequest(r, g) == [r EXCEPT !.base = Altered(r.base, g), !.odd = Altered(r.odd, g)]

\* C29: two events that differ only in the payload fields country, city, region,
\* timezone, latitude, longitude, asn, colo, ip or userAgent, and arrive with the same
\* geo context and headers, give identical dataset records and acknowledgments.
C29_MetadataOverridesPayload ==
    \A g \in PayloadVariants :
        LET twin == TwinRequest(req, g)
        IN /\ (req.kind = "single" /\ pc = "done") =>
                 /\ resp = TrackResponse(twin, Attempt(twin, 1, now))
                 /\ writes = IF twin.jsonOK THEN Attempt(twin, 1, now).ws ELSE <<>>
           /\ (AcceptedBatch /\ results # <<>>) =>
                 LET i == Len(results)   \* the item the loop has just been through
                 IN /\ results[i] = ItemResult(twin, i, Attempt(twin, i, now))
                    /\ SelectSeq(writes, LAMBDA w : w.item = i) = Attempt(twin, i, now).ws

\* an event whose payload names a country of its own, recorded and acknowledged with
\* the country of the request
C29_Witness ==
    /\ req.kind = "single" /\ pc = "done" /\ resp.status = 200
    /\ req.base.f["country"] = Str("spoofed") /\ req.base.f["asn"] = Num(99)
    /\ Len(writes) = 1
    /\ writes[1].point.blobs[4] = Or(CfGet(req.cf, "country"), Str("XX"))
    /\ writes[1].point.blobs[4] # Str("spoofed")
    /\ resp.country = writes[1].point.blobs[4]

----------------------------------------------------------------------------
(* C30 *)

\* a stats payload holding the zero-valued default of some aggregator query (the
\* datasets themselves hold content rows, transactions and locations)
DefaultsHeld(v) ==
    \/ v.content.byType = <<>>
    \/ v.overview.transactions = Num(0)
    \/ v.demographics.byLocation = <<>>

\* C30: a stats result computed while some aggregator query failed is stored in the
\* cache like any other, and every later stats request with the same studioId and days
\* within the TTL is answered with those zero-valued defaults without a dataset query,
\* whether or not the datasets have recovered.
C30_FailedResultIsCached ==
    [][(rpc = "idle" /\ rpc' = "done" /\ rd'.endpoint = "stats") =>
          LET key  == KeyOf(rd')
              held == KvGet(cache, key, clock)
          IN /\ (held = <<>> /\ rd'.failing # {}) =>
                   /\ rresp'.status = 200 /\ DefaultsHeld(rresp'.body[1])
                   /\ puts' = 1
                   /\ cache'[key] = [value |-> rresp'.body, expires |-> clock + CacheTtl]
                   /\ KvGet(cache', key, clock) = rresp'.body
             /\ (held # <<>> /\ DefaultsHeld(held[1])) =>
                   /\ rresp'.status = 200 /\ rresp'.body = held
                   /\ queries' = 0 /\ cache' = cache]_vars

\* a stats request none of whose queries would fail, answered at a later tick with the
\* defaults an earlier, failing request has stored
C30_Witness ==
    /\ rpc = "done" /\ rd.endpoint = "stats" /\ rd.failing = {} /\ rd.apiOk
    /\ rresp.status = 200 /\ queries = 0
    /\ clock > 0
    /\ DefaultsHeld(rresp.body[1])
    /\ rresp.body[1].overview.totalViews = Num(0)

====
